---- MODULE Spec2Model ----
(***************************************************************************)
(* kabu-predictor: multi-horizon walk-forward training and prediction.     *)
(*                                                                         *)
(* Three groups of state are modelled:                                     *)
(*   - the training data path: phase_features / create_target_labels and   *)
(*     the date split of walk_forward_train (SpecTrain);                   *)
(*   - predict_single_stock on one instrument (SpecPredict);               *)
(*   - the run-level pipeline of main.py with the on-disk model directory  *)
(*     (Spec).                                                             *)
(* Floating point values are modelled as exact rationals with a NaN flag;  *)
(* probabilities and weights are integers in hundredths.                   *)
(***************************************************************************)
EXTENDS Integers, Sequences, FiniteSets, TLC

VARIABLES
    \* ---- training data path
    price_data,    \* ticker -> sequence of featured rows (before labelling)
    all_data,      \* ticker -> sequence of labelled rows (phase_features' result)
    features_done, \* phase_features has run
    split,         \* the subsets built by the latest walk_forward_train call
    \* ---- predict_single_stock
    df_cols,       \* the instrument's feature columns, in frame order
    df_nan,        \* the columns whose latest value is NaN
    models,        \* horizon -> trained feature-name list (<<>>: no model)
    model_out,     \* horizon -> probability returned by model.predict
    pred,          \* the result of predict_single_stock
    \* ---- pipeline
    pc,            \* "idle" | "train" | "predict"
    run_kind,      \* "none" | "daily" | "weekly" | "full"
    run_input,     \* the inputs of the current run
    t_idx,         \* position of train_all_horizons' loop (1-based)
    attempted,     \* horizons walk_forward_train was called for, in order
    results,       \* train_all_horizons' results dictionary (its keys)
    last_attempt,  \* what happened in the latest loop iteration
    model_file,    \* MODEL_DIR/lgbm_horizon_{h}d.txt: which run wrote it
    metrics_file,  \* MODEL_DIR/metrics_horizon_{h}d.pkl: which run wrote it
    last_train,    \* horizon -> outcome in the most recent training run
    predictions,   \* what predict_all_stocks returned in this run
    exit_status,   \* "none" | "success" | "failure"
    \* ---- scoring and ranking
    prediction_df, \* the rows handed to calculate_composite_score, in input order
    scored_df,     \* what calculate_composite_score returned
    top_df,        \* what get_top_n returned
    \* ---- calculate_risk_adjusted_score
    risk_close,    \* the Close column of the instrument's frame
    risk_lookback, \* the lookback argument
    risk_result,   \* what calculate_risk_adjusted_score returned
    \* ---- calculate_overheat_penalty
    oh_close,      \* the Close column handed to the latest call
    oh_result,     \* what the latest call computed and returned
    \* ---- evaluate_backtest
    bt_predictions, \* the predictions frame: rows in frame order, indexed by date
    bt_returns,    \* the actual_returns frame: index, columns, values
    bt_top_n,      \* the top_n argument
    bt_result,     \* the dictionary evaluate_backtest returned
    \* ---- the per-instrument loops of phase_features and predict_all_stocks
    batch,         \* the instruments of price_data, in dictionary order
    fb,            \* phase_features: loop position, all_data, counters, log line
    pb,            \* predict_all_stocks: loop position, results, result_df, log line
    \* ---- save_model and load_model on one horizon's files
    art,           \* MODEL_DIR: the horizon's model file and metrics file
    sv,            \* the training process inside save_model
    ld,            \* the prediction process inside load_model
    \* ---- the ranking passes of phase_predict and their daily reports
    rp,            \* today's date, where the pass stands, what earlier passes stored
    report_dir,    \* DAILY_REPORT_DIR: date -> the files of that date's directory
    \* ---- the date windows of walk_forward_train
    wf_dates,      \* the unique valid dates, sorted
    wf_windows,    \* the window lengths and the three date windows
    \* ---- train_model's hyperparameters
    default_params, \* settings.LGBM_DEFAULT_PARAMS, the module-level dictionary
    tm             \* the train_model calls: the current frame and the finished calls

train_vars == <<price_data, all_data, features_done, split>>
predict_vars == <<df_cols, df_nan, models, model_out, pred>>
pipeline_vars == <<pc, run_kind, run_input, t_idx, attempted, results,
                   last_attempt, model_file, metrics_file, last_train,
                   predictions, exit_status>>
rank_vars == <<prediction_df, scored_df, top_df>>
risk_vars == <<risk_close, risk_lookback, risk_result>>
overheat_vars == <<oh_close, oh_result>>
backtest_vars == <<bt_predictions, bt_returns, bt_top_n, bt_result>>
batch_vars == <<batch, fb, pb>>
artifact_vars == <<art, sv, ld>>
report_vars == <<rp, report_dir>>
windows_vars == <<wf_dates, wf_windows>>
params_vars == <<default_params, tm>>
other_vars == <<backtest_vars, batch_vars, artifact_vars, report_vars, windows_vars,
                params_vars>>
scoring_vars == <<rank_vars, risk_vars, overheat_vars, other_vars>>
vars == <<train_vars, predict_vars, pipeline_vars, scoring_vars>>

-----------------------------------------------------------------------------
(* Configuration: config/settings.py *)

\* PREDICTION_HORIZONS, in dictionary (insertion) order.
PREDICTION_HORIZONS == <<1, 5, 20, 60>>

HorizonSet == {PREDICTION_HORIZONS[i] : i \in 1..Len(PREDICTION_HORIZONS)}

\* The blend weight of a horizon, in hundredths.
HorizonWeight(h) ==
    CASE h = 1 -> 30
      [] h = 5 -> 30
      [] h = 20 -> 25
      [] h = 60 -> 15

-----------------------------------------------------------------------------
(* Generic helpers *)

Min(a, b) == IF a <= b THEN a ELSE b

Max(a, b) == IF a >= b THEN a ELSE b

Range(s) == {s[i] : i \in 1..Len(s)}

RECURSIVE SortedSeq(_)
\* The elements of a finite set of integers as an ascending sequence.
SortedSeq(S) ==
    IF S = {} THEN <<>>
    ELSE LET m == CHOOSE x \in S : \A y \in S : x <= y
         IN <<m>> \o SortedSeq(S \ {m})

\* Python's seq[lo:hi] for integer bounds (negative bounds count from the end).
PySlice(s, lo, hi) ==
    LET n == Len(s)
        norm(i) == IF i < 0 THEN Max(n + i, 0) ELSE Min(i, n)
        a == norm(lo)
        b == norm(hi)
    IN IF a >= b THEN <<>> ELSE SubSeq(s, a + 1, b)

-----------------------------------------------------------------------------
(* Floating point values: exact rationals num/den (den > 0) or NaN *)

NaN == [nan |-> TRUE, num |-> 0, den |-> 1]

Num(n) == [nan |-> FALSE, num |-> n, den |-> 1]

\* a / b for a positive divisor; NaN propagates.
FDiv(a, b) ==
    IF a.nan \/ b.nan THEN NaN
    ELSE [nan |-> FALSE, num |-> a.num * b.den, den |-> a.den * b.num]

\* a - 1
FSubOne(a) ==
    IF a.nan THEN NaN ELSE [nan |-> FALSE, num |-> a.num - a.den, den |-> a.den]

\* a > 0; a comparison with NaN is False.
FGtZero(a) == ~a.nan /\ a.num > 0

\* bool -> int
AsTypeInt(b) == Num(IF b THEN 1 ELSE 0)

-----------------------------------------------------------------------------
(* Training data path: create_target_labels, walk_forward_train's split *)

Tickers == {"T1", "T2"}

\* Longest close series enumerated with every combination of closes.
MaxLen == 6
\* Largest number of sessions of the long (patterned) histories.
MaxDates == 12

\* Close.shift(k): the close k rows back (k < 0: -k rows ahead), NaN outside.
ShiftBackwards(df, k, t) ==
    IF t + k >= 1 /\ t + k <= Len(df) THEN df[t + k].Close ELSE NaN

Shift(df, k, t) ==
    IF t - k >= 1 /\ t - k <= Len(df) THEN df[t - k].Close ELSE NaN

\* result["Close"].shift(-days) / result["Close"] - 1
FutureReturn(df, days, t) ==
    FSubOne(FDiv(Shift(df, -days, t), df[t].Close))

\* (future_return > 0).astype(int)
TargetOf(future_return) == AsTypeInt(FGtZero(future_return))

\* create_target_labels: every row gains target_{h}d and future_return_{h}d.
CreateTargetLabels(df, horizons) ==
    [t \in 1..Len(df) |->
        [date |-> df[t].date,
         Close |-> df[t].Close,
         feat |-> df[t].feat,
         target |-> [h \in horizons |-> TargetOf(FutureReturn(df, h, t))],
         future_return |-> [h \in horizons |-> FutureReturn(df, h, t)]]]

\* combined[feature_cols + [target_col]]: the columns dropna looks at.
\* get_feature_columns leaves out target_*, future_return_* and OHLCV.
SelectedColumns(row, h) == <<row.feat, row.target[h]>>

\* DataFrame.dropna keeps a row when none of its selected values is NaN.
DropNaKeeps(cols) == \A i \in 1..Len(cols) : ~cols[i].nan

\* pd.concat of the frames tagged with their ticker; rows carry their position.
Combined(data, h) ==
    UNION {{[ticker |-> tk, pos |-> t, date |-> data[tk][t].date,
             cols |-> SelectedColumns(data[tk][t], h)] :
                t \in 1..Len(data[tk])} : tk \in DOMAIN data}

\* combined[feature_cols + [target_col]].dropna()
ValidData(combined) == {r \in combined : DropNaKeeps(r.cols)}

\* valid_data.index.unique().sort_values()
UniqueDates(valid_data) == SortedSeq({r.date : r \in valid_data})

\* A test window of a fifth of the dates, however many there are.
TestDaysUncapped(total_days) == total_days \div 5

\* The window lengths of walk_forward_train.
TestDays(total_days) == Min(60, total_days \div 5)

\* A validation window as long as the test window's share.
ValDaysFifth(total_days) == Min(20, total_days \div 5)

ValDays(total_days) == Min(20, total_days \div 10)

TrainEndIdx(total_days) == total_days - TestDays(total_days) - ValDays(total_days)

\* dates[:train_end_idx]
TrainDates(dates) == PySlice(dates, 0, TrainEndIdx(Len(dates)))

\* A validation window that starts one date early (overlapping the training dates).
ValDatesEarly(dates) ==
    PySlice(dates, Max(TrainEndIdx(Len(dates)) - 1, 0),
            TrainEndIdx(Len(dates)) + ValDays(Len(dates)))

\* dates[train_end_idx:train_end_idx + val_days]
ValDates(dates) ==
    PySlice(dates, TrainEndIdx(Len(dates)),
            TrainEndIdx(Len(dates)) + ValDays(Len(dates)))

\* A test window that starts one date late (skipping a date).
TestDatesLate(dates) ==
    PySlice(dates, TrainEndIdx(Len(dates)) + ValDays(Len(dates)) + 1, Len(dates))

\* dates[train_end_idx + val_days:]
TestDates(dates) ==
    PySlice(dates, TrainEndIdx(Len(dates)) + ValDays(Len(dates)), Len(dates))

\* valid_data.loc[valid_data.index.isin(window)]
RowsOn(valid_data, window) == {r \in valid_data : r.date \in Range(window)}

NoSplit ==
    [horizon |-> 0, raised |-> FALSE, n_valid |-> 0,
     train_dates |-> <<>>, val_dates |-> <<>>, test_dates |-> <<>>,
     train |-> {}, val |-> {}, test |-> {}]

\* walk_forward_train up to the subsets handed to train_model and to the test
\* evaluation. With no frame to pool it raises ValueError.
WalkForwardSplit(data, h) ==
    IF DOMAIN data = {}
    THEN [NoSplit EXCEPT !.horizon = h, !.raised = TRUE]
    ELSE LET valid_data == ValidData(Combined(data, h))
             dates == UniqueDates(valid_data)
         IN [horizon |-> h, raised |-> FALSE, n_valid |-> Cardinality(valid_data),
             train_dates |-> TrainDates(dates),
             val_dates |-> ValDates(dates),
             test_dates |-> TestDates(dates),
             train |-> RowsOn(valid_data, TrainDates(dates)),
             val |-> RowsOn(valid_data, ValDates(dates)),
             test |-> RowsOn(valid_data, TestDates(dates))]

(* Inputs of the training data path *)

Closes == {1, 2}

Warmups == {0, 1}

\* A featured frame: consecutive sessions from `start`; the first `warm` rows
\* still have NaN rolling features.
Panel(start, closes, warm) ==
    [i \in 1..Len(closes) |->
        [date |-> start + i - 1,
         Close |-> Num(closes[i]),
         feat |-> IF i <= warm THEN NaN ELSE Num(1)]]

PatternCloses(start, n) == [i \in 1..n |-> 1 + ((start + i - 1) % 2)]

Absent == [present |-> FALSE, rows |-> <<>>]

Present(rows) == [present |-> TRUE, rows |-> rows]

\* The dictionary {ticker: frame} of the instruments that have a frame.
PriceDict(o1, o2) ==
    LET o == [tk \in Tickers |-> IF tk = "T1" THEN o1 ELSE o2]
    IN [tk \in {t \in Tickers : o[t].present} |-> o[tk].rows]

\* Short histories with every combination of closes, all ending on the same
\* latest session.
ShortFrames(maxlen) ==
    {Absent} \cup
    UNION {{Present(Panel(MaxLen - n + 1, c, w)) : c \in [1..n -> Closes], w \in Warmups} :
            n \in 0..maxlen}

\* Long histories with a fixed close pattern: sessions s..e up to (or one short
\* of) the latest session, or no session.
LongFrames ==
    {Present(<<>>)} \cup
    UNION {{Present(Panel(s, PatternCloses(s, e - s + 1), 0)) :
                e \in {x \in {MaxDates - 1, MaxDates} : x >= s}} :
            s \in 1..MaxDates}

LongFramesFromFirst ==
    {Present(Panel(1, PatternCloses(1, n), w)) : n \in 0..MaxDates, w \in Warmups}

PriceInputs ==
    {PriceDict(a, b) : a \in ShortFrames(MaxLen), b \in ShortFrames(1)}
    \cup {PriceDict(a, b) : a \in LongFramesFromFirst, b \in LongFrames}

(* Actions of the training data path *)

TrainIdle ==
    /\ price_data = <<>>
    /\ all_data = <<>>
    /\ features_done = FALSE
    /\ split = NoSplit

InitTrain ==
    /\ price_data \in PriceInputs
    /\ all_data = <<>>
    /\ features_done = FALSE
    /\ split = NoSplit

\* phase_features: label every instrument's frame; an instrument whose feature
\* computation raises is counted as failed and left out.
PhaseFeatures ==
    /\ ~features_done
    /\ \E bad \in SUBSET (DOMAIN price_data) :
         all_data' = [tk \in (DOMAIN price_data) \ bad |->
                        CreateTargetLabels(price_data[tk], HorizonSet)]
    /\ features_done' = TRUE
    /\ UNCHANGED <<price_data, split>>

\* walk_forward_train(all_data, h), as called by train_all_horizons.
WalkForwardTrain ==
    /\ features_done
    /\ \E h \in HorizonSet : split' = WalkForwardSplit(all_data, h)
    /\ UNCHANGED <<price_data, all_data, features_done>>

-----------------------------------------------------------------------------
(* predict_single_stock *)

\* The feature lists a frame or a trained model may carry.
DfColumnLists == {<<"f1", "f2">>, <<"f1", "f2", "f3">>, <<"f2">>}

ModelFeatureLists == {<<"f1", "f2">>, <<"f2", "f1">>, <<"f1", "f3">>}

\* Probabilities a model may return, in hundredths.
ProbLevels == {0, 100}

\* The latest value of a feature column when it is not NaN.
FeatureValue(c) ==
    CASE c = "f1" -> 11
      [] c = "f2" -> 12
      [] c = "f3" -> 13

\* [c for c in names if keep(c)]
RECURSIVE FilterIn(_, _)
FilterIn(names, S) ==
    IF names = <<>> THEN <<>>
    ELSE (IF Head(names) \in S THEN <<Head(names)>> ELSE <<>>)
         \o FilterIn(Tail(names), S)

RECURSIVE FilterNotIn(_, _)
FilterNotIn(names, S) ==
    IF names = <<>> THEN <<>>
    ELSE (IF Head(names) \in S THEN <<>> ELSE <<Head(names)>>)
         \o FilterNotIn(Tail(names), S)

\* A one-row frame is a sequence of <<column, value>> pairs in column order.
ColumnNames(X) == [i \in 1..Len(X) |-> X[i][1]]

ValueIn(X, c) == X[CHOOSE i \in 1..Len(X) : X[i][1] = c][2]

\* X[names]: the named columns, in the order asked for.
SelectColumns(X, names) == [i \in 1..Len(names) |-> <<names[i], ValueIn(X, names[i])>>]

\* for col in names: X[col] = 0 (new columns are appended)
AddZeroColumns(X, names) == X \o [i \in 1..Len(names) |-> <<names[i], 0>>]

\* latest[available_cols].fillna(0)
LatestFilled(cols, nan_cols) ==
    [i \in 1..Len(cols) |->
        <<cols[i], IF cols[i] \in nan_cols THEN 0 ELSE FeatureValue(cols[i])>>]

\* The row handed to one model: reconciled with the model's feature names only
\* when the column count differs from the model's feature count.
XPred(X, model_features) ==
    IF Len(X) # Len(model_features)
    THEN LET available == Range(ColumnNames(X))
             matched_cols == FilterIn(model_features, available)
             missing_cols == FilterNotIn(model_features, available)
         IN SelectColumns(AddZeroColumns(SelectColumns(X, matched_cols), missing_cols),
                          model_features)
    ELSE X

\* A blend that divides by the weights of the horizons that have a model.
RECURSIVE WeightedScoreRenormalized(_, _, _)
WeightedScoreRenormalized(mods, out, i) ==
    LET RECURSIVE Total(_)
        Total(k) ==
            IF k = 0 THEN 0
            ELSE Total(k - 1) +
                 (IF PREDICTION_HORIZONS[k] \in DOMAIN mods
                  THEN out[PREDICTION_HORIZONS[k]] * HorizonWeight(PREDICTION_HORIZONS[k])
                  ELSE 0)
        RECURSIVE Used(_)
        Used(k) ==
            IF k = 0 THEN 0
            ELSE Used(k - 1) +
                 (IF PREDICTION_HORIZONS[k] \in DOMAIN mods
                  THEN HorizonWeight(PREDICTION_HORIZONS[k]) ELSE 0)
    IN IF Used(i) = 0 THEN 0 ELSE (Total(i) * 100) \div Used(i)

\* weighted_score after the first i horizons of the loop over
\* PREDICTION_HORIZONS: a horizon with no model is skipped.
RECURSIVE WeightedScore(_, _, _)
WeightedScore(mods, out, i) ==
    IF i = 0 THEN 0
    ELSE LET h == PREDICTION_HORIZONS[i]
         IN WeightedScore(mods, out, i - 1) +
            (IF h \in DOMAIN mods THEN out[h] * HorizonWeight(h) ELSE 0)

NoPred == [done |-> FALSE, empty |-> TRUE, probs |-> <<>>, weighted_score |-> 0,
           x_pred |-> <<>>]

\* predict_single_stock(df, models): {} when there is no model at all.
PredictSingleStockResult(cols, nan_cols, mods, out) ==
    IF DOMAIN mods = {}
    THEN [NoPred EXCEPT !.done = TRUE]
    ELSE LET X == LatestFilled(cols, nan_cols)
         IN [done |-> TRUE,
             empty |-> FALSE,
             probs |-> [h \in DOMAIN mods |-> out[h]],
             weighted_score |-> WeightedScore(mods, out, Len(PREDICTION_HORIZONS)),
             x_pred |-> [h \in DOMAIN mods |-> XPred(X, mods[h])]]

ModelDicts == UNION {[S -> ModelFeatureLists] : S \in SUBSET HorizonSet}

InitPredict ==
    /\ df_cols \in DfColumnLists
    /\ df_nan \in {{}, {df_cols[1]}}
    /\ models \in ModelDicts
    /\ model_out \in [DOMAIN models -> ProbLevels]
    /\ pred = NoPred

PredictSingleStock ==
    /\ ~pred.done
    /\ pred' = PredictSingleStockResult(df_cols, df_nan, models, model_out)
    /\ UNCHANGED <<df_cols, df_nan, models, model_out>>

-----------------------------------------------------------------------------
(* The pipeline of main.py: training runs, prediction runs, the model directory *)

\* Largest number of search trials that complete in one study.
MaxTrials == 1
\* settings.OPTUNA_N_TRIALS
OPTUNA_N_TRIALS == 50

RunKinds == {"daily", "weekly", "full"}

NoInput == [has_data |-> FALSE, optimize |-> FALSE]

NoAttempt ==
    [horizon |-> 0, optimize |-> FALSE, n_complete |-> 0, params |-> "none",
     fitted |-> FALSE, model_written |-> FALSE, metrics_written |-> FALSE,
     error |-> FALSE]

NoPredictions == [status |-> "none", result |-> NoPred]

\* optimize_hyperparams: study.optimize runs trials until the budget ends or a
\* trial raises (optuna re-raises what `catch` does not name, and nothing is
\* named); study.best_params raises when no trial completed.
OptimizeHyperparams(n_complete, trial_raises) ==
    IF trial_raises THEN "raised"
    ELSE IF n_complete = 0 THEN "raised"
    ELSE "best_params"

\* The hyperparameters train_model fits with (params is None in every call).
TrainModelParams(optimize, n_complete, trial_raises) ==
    IF optimize THEN OptimizeHyperparams(n_complete, trial_raises)
    ELSE "default_params"

\* One iteration of train_all_horizons' loop body: walk_forward_train, then
\* save_model, then results[horizon] = ...; the first exception ends the body.
TrainAttempt(h, optimize, n_complete, trial_raises, fit_raises, save) ==
    LET params == TrainModelParams(optimize, n_complete, trial_raises)
        fitted == params # "raised" /\ ~fit_raises
        model_written == fitted /\ save # "raise_before_write"
        metrics_written == fitted /\ save = "ok"
    IN [horizon |-> h, optimize |-> optimize,
        n_complete |-> IF optimize THEN n_complete ELSE 0,
        params |-> params, fitted |-> fitted,
        model_written |-> model_written, metrics_written |-> metrics_written,
        error |-> ~metrics_written]

SaveOutcomes == {"ok", "raise_before_write", "raise_after_model"}

\* A loop that gives up at the first failed horizon.
AfterAttemptAbort(att, idx) ==
    IF att.error
    THEN [pc |-> "idle", t_idx |-> idx, exit_status |-> "failure"]
    ELSE [pc |-> "train", t_idx |-> idx + 1, exit_status |-> "none"]

\* except Exception: log the failure; the for loop goes on to the next horizon.
AfterAttempt(att, idx) ==
    [pc |-> "train", t_idx |-> idx + 1, exit_status |-> "none"]

\* What a file of the model directory holds: nothing, the artifact written by
\* the most recent training run, or one written by an earlier training run.
FileStates == {"absent", "latest_run", "earlier_run"}

\* A new training run begins: what the directory holds is now from earlier runs.
Aged(files) ==
    [h \in HorizonSet |-> IF files[h] = "absent" THEN "absent" ELSE "earlier_run"]

\* load_model for every configured horizon: the horizons whose file exists.
ModelsOnDisk(files) == {h \in HorizonSet : files[h] # "absent"}

\* The feature columns of the pipeline's frames and models.
PipelineColumns == <<"f1", "f2">>

InitPipeline ==
    /\ pc = "idle"
    /\ run_kind = "none"
    /\ run_input = NoInput
    /\ t_idx = 0
    /\ attempted = <<>>
    /\ results = {}
    /\ last_attempt = NoAttempt
    /\ model_file = [h \in HorizonSet |-> "absent"]
    /\ metrics_file = [h \in HorizonSet |-> "absent"]
    /\ last_train = [h \in HorizonSet |-> "never"]
    /\ predictions = NoPredictions
    /\ exit_status = "none"

\* A new process starts run_daily, run_weekly or run_full_pipeline: phase_data
\* and phase_features, then phase_train's entry for the training kinds.
StartRun ==
    /\ pc = "idle"
    /\ \E kind \in RunKinds, fetch_raises \in BOOLEAN, has_data \in BOOLEAN,
          optimize \in BOOLEAN :
         LET trains == kind # "daily" /\ has_data /\ ~fetch_raises
         IN /\ kind = "daily" => ~optimize
            /\ fetch_raises => (~has_data /\ ~optimize)
            /\ run_kind' = kind
            /\ run_input' = [has_data |-> has_data, optimize |-> optimize]
            /\ attempted' = <<>>
            /\ results' = {}
            /\ last_attempt' = NoAttempt
            /\ predictions' = NoPredictions
            /\ pc' = IF fetch_raises THEN "idle"
                     ELSE IF trains THEN "train"
                     ELSE IF kind = "weekly" THEN "idle"
                     ELSE "predict"
            /\ exit_status' = IF fetch_raises THEN "failure"
                              ELSE IF kind = "weekly" /\ ~trains THEN "success"
                              ELSE "none"
            /\ model_file' = IF trains THEN Aged(model_file) ELSE model_file
            /\ metrics_file' = IF trains THEN Aged(metrics_file) ELSE metrics_file
            /\ t_idx' = IF trains THEN 1 ELSE 0
            /\ last_train' = IF trains THEN [h \in HorizonSet |-> "pending"]
                             ELSE last_train

\* One iteration of the loop of train_all_horizons.
TrainHorizon ==
    /\ pc = "train"
    /\ t_idx <= Len(PREDICTION_HORIZONS)
    /\ \E n_complete \in 0..Min(MaxTrials, OPTUNA_N_TRIALS), trial_raises \in BOOLEAN,
          fit_raises \in BOOLEAN, save \in SaveOutcomes :
         LET h == PREDICTION_HORIZONS[t_idx]
             att == TrainAttempt(h, run_input.optimize, n_complete, trial_raises,
                                 fit_raises, save)
             nxt == AfterAttempt(att, t_idx)
         IN /\ run_input.optimize => (n_complete > 0 \/ trial_raises)
            /\ ~run_input.optimize => (n_complete = 0 /\ ~trial_raises)
            /\ last_attempt' = att
            /\ attempted' = Append(attempted, h)
            /\ model_file' = IF att.model_written
                             THEN [model_file EXCEPT ![h] = "latest_run"] ELSE model_file
            /\ metrics_file' = IF att.metrics_written
                               THEN [metrics_file EXCEPT ![h] = "latest_run"]
                               ELSE metrics_file
            /\ results' = IF att.error THEN results ELSE results \cup {h}
            /\ last_train' = [last_train EXCEPT ![h] = IF att.error THEN "failed" ELSE "ok"]
            /\ pc' = nxt.pc
            /\ t_idx' = nxt.t_idx
            /\ exit_status' = nxt.exit_status
    /\ UNCHANGED <<run_kind, run_input, predictions>>

\* train_all_horizons returns its results; phase_train logs the summary.
FinishTraining ==
    /\ pc = "train"
    /\ t_idx > Len(PREDICTION_HORIZONS)
    /\ pc' = IF run_kind = "full" THEN "predict" ELSE "idle"
    /\ exit_status' = IF run_kind = "full" THEN "none" ELSE "success"
    /\ UNCHANGED <<run_kind, run_input, t_idx, attempted, results,
                   last_attempt, model_file, metrics_file, last_train, predictions>>

\* phase_predict to the end of the run: predict_all_stocks on the loaded
\* models, then scoring, report and notification.
PhasePredict ==
    /\ pc = "predict"
    /\ \E p \in ProbLevels, ticker_raises \in BOOLEAN, report_raises \in BOOLEAN :
         LET mods == [h \in ModelsOnDisk(model_file) |-> PipelineColumns]
             out == [h \in ModelsOnDisk(model_file) |-> p]
             status == IF ~run_input.has_data THEN "no_data"
                       ELSE IF DOMAIN mods = {} THEN "no_models"
                       ELSE IF ticker_raises THEN "no_results"
                       ELSE "ok"
         IN /\ status # "ok" => ~report_raises
            /\ status \in {"no_data", "no_models"} => ~ticker_raises
            /\ predictions' =
                 [status |-> status,
                  result |-> IF status = "ok"
                             THEN PredictSingleStockResult(PipelineColumns, {}, mods, out)
                             ELSE NoPred]
            /\ exit_status' = IF report_raises THEN "failure" ELSE "success"
    /\ pc' = "idle"
    /\ UNCHANGED <<run_kind, run_input, t_idx, attempted, results,
                   last_attempt, model_file, metrics_file, last_train>>

-----------------------------------------------------------------------------
(* Scoring and ranking: calculate_composite_score, get_top_n                *)
(* Scores and penalties are integers in hundredths, weights in hundredths;  *)
(* a base score is in units of 1e-4 and a composite score in units of 1e-8. *)

\* settings.SCORE_WEIGHTS, in hundredths.
SCORE_WEIGHTS ==
    [prediction |-> 50, fundamental |-> 25, risk_adjusted |-> 25,
     overheat_penalty |-> 30]

\* settings.TOP_N
TOP_N == 10

\* Largest number of rows of a prediction frame.
MaxRows == 3

\* The value 1 in the unit of a weight times a score.
One == 100 * 100

\* The instruments of a prediction frame, in the frame's row order.
RankTickers == <<"A", "B", "C", "D", "E">>

\* What a row carries once the three per-ticker loops have run: the predicted
\* weighted_score, and the fundamental score, risk-adjusted score and overheat
\* penalty computed for its ticker.
ScoreProfiles ==
    {[weighted_score |-> 80, fundamental_score |-> 50, risk_adjusted_score |-> 50,
      overheat_penalty |-> p] : p \in {0, 50, 100}}
    \cup
    {[weighted_score |-> 60, fundamental_score |-> 50, risk_adjusted_score |-> 50,
      overheat_penalty |-> 0],
     [weighted_score |-> 40, fundamental_score |-> 50, risk_adjusted_score |-> 50,
      overheat_penalty |-> 0],
     [weighted_score |-> 0, fundamental_score |-> 0, risk_adjusted_score |-> 0,
      overheat_penalty |-> 100],
     [weighted_score |-> 20, fundamental_score |-> 100, risk_adjusted_score |-> 0,
      overheat_penalty |-> 50]}

\* A frame of n rows: row i belongs to the i-th ticker.
PredictionFrames(n) ==
    {[i \in 1..n |->
        [ticker |-> RankTickers[i],
         weighted_score |-> f[i].weighted_score,
         fundamental_score |-> f[i].fundamental_score,
         risk_adjusted_score |-> f[i].risk_adjusted_score,
         overheat_penalty |-> f[i].overheat_penalty]] : f \in [1..n -> ScoreProfiles]}

\* base_score of one row.
BaseScore(r) ==
    SCORE_WEIGHTS.prediction * r.weighted_score +
    SCORE_WEIGHTS.fundamental * r.fundamental_score +
    SCORE_WEIGHTS.risk_adjusted * r.risk_adjusted_score

\* w.get("overheat_penalty", 0.30): the key is configured.
PenaltyFactor == SCORE_WEIGHTS.overheat_penalty

\* A composite that discounts only the prediction term, before the sum.
CompositeScorePenaltyFirst(r) ==
    (SCORE_WEIGHTS.prediction * r.weighted_score) *
        (One - PenaltyFactor * r.overheat_penalty) +
    (SCORE_WEIGHTS.fundamental * r.fundamental_score +
     SCORE_WEIGHTS.risk_adjusted * r.risk_adjusted_score) * One

\* A composite whose factor grows with the penalty.
CompositeScoreRewarding(r) ==
    BaseScore(r) * (One + PenaltyFactor * r.overheat_penalty)

\* A composite that subtracts the weighted penalty from the base score.
CompositeScoreAdditive(r) ==
    BaseScore(r) * One - PenaltyFactor * r.overheat_penalty * One

\* base_score * (1 - penalty_factor * result["overheat_penalty"])
CompositeScore(r) ==
    BaseScore(r) * (One - PenaltyFactor * r.overheat_penalty)

\* The frame with its composite_score column, before sorting.
WithComposite(df) ==
    [i \in 1..Len(df) |->
        [ticker |-> df[i].ticker,
         weighted_score |-> df[i].weighted_score,
         fundamental_score |-> df[i].fundamental_score,
         risk_adjusted_score |-> df[i].risk_adjusted_score,
         overheat_penalty |-> df[i].overheat_penalty,
         composite_score |-> CompositeScore(df[i])]]

RowOrders(n) ==
    {p \in [1..n -> 1..n] : \A i \in 1..n : \A j \in 1..n : i # j => p[i] # p[j]}

\* A sort in ascending order of the key.
SortValuesAscending(df) ==
    {[k \in 1..Len(df) |-> df[p[k]]] : p \in
        {q \in RowOrders(Len(df)) :
            \A k \in 1..(Len(df) - 1) :
                df[q[k]].composite_score <= df[q[k + 1]].composite_score}}

\* sort_values("composite_score", ascending=False) with the default sort kind
\* (quicksort, which is not a stable sort): every arrangement in descending
\* order of the key is a possible outcome, whatever the order among equal keys.
SortValuesDescending(df) ==
    {[k \in 1..Len(df) |-> df[p[k]]] : p \in
        {q \in RowOrders(Len(df)) :
            \A k \in 1..(Len(df) - 1) :
                df[q[k]].composite_score >= df[q[k + 1]].composite_score}}

\* A rank column that repeats the 0-based index.
WithRankZeroBased(df) ==
    [k \in 1..Len(df) |->
        [ticker |-> df[k].ticker,
         weighted_score |-> df[k].weighted_score,
         fundamental_score |-> df[k].fundamental_score,
         risk_adjusted_score |-> df[k].risk_adjusted_score,
         overheat_penalty |-> df[k].overheat_penalty,
         composite_score |-> df[k].composite_score,
         rank |-> k - 1]]

\* reset_index(drop=True); result["rank"] = result.index + 1
WithRank(df) ==
    [k \in 1..Len(df) |->
        [ticker |-> df[k].ticker,
         weighted_score |-> df[k].weighted_score,
         fundamental_score |-> df[k].fundamental_score,
         risk_adjusted_score |-> df[k].risk_adjusted_score,
         overheat_penalty |-> df[k].overheat_penalty,
         composite_score |-> df[k].composite_score,
         rank |-> (k - 1) + 1]]

\* scored_df.head(n) for n >= 0
HeadRows(df, n) == SubSeq(df, 1, Min(n, Len(df)))

NoScored == [done |-> FALSE, rows |-> <<>>]

NoTop == [done |-> FALSE, n |-> 0, rows |-> <<>>]

RankIdle ==
    /\ prediction_df = <<>>
    /\ scored_df = NoScored
    /\ top_df = NoTop

InitRank ==
    /\ prediction_df \in UNION {PredictionFrames(n) : n \in 0..MaxRows}
    /\ scored_df = NoScored
    /\ top_df = NoTop

\* calculate_composite_score(prediction_df, price_data)
CalculateCompositeScore ==
    /\ ~scored_df.done
    /\ \E sorted \in SortValuesDescending(WithComposite(prediction_df)) :
         scored_df' = [done |-> TRUE, rows |-> WithRank(sorted)]
    /\ UNCHANGED <<prediction_df, top_df>>

\* get_top_n(scored_df, n); n defaults to TOP_N.
GetTopN ==
    /\ scored_df.done
    /\ ~top_df.done
    /\ \E n \in (0..(MaxRows + 1)) \cup {TOP_N} :
         top_df' = [done |-> TRUE, n |-> n, rows |-> HeadRows(scored_df.rows, n)]
    /\ UNCHANGED <<prediction_df, scored_df>>

-----------------------------------------------------------------------------
(* calculate_risk_adjusted_score                                            *)
(* Returns are exact multiples of 1/ReturnScale; the four rescaled metrics  *)
(* and the volatility penalty are in hundredths (rounded down), the         *)
(* returned score in units of 1e-4.                                         *)

\* Closing prices of the enumerated histories.
RiskCloses == {1, 2, 4}

\* Longest enumerated history.
MaxHist == 4

\* The lookback arguments: the default (evaluator.py: lookback = 60) and
\* windows short enough for the enumerated histories to fill.
Lookbacks == {1, 2, 3, 4, 60}

\* The denominator every return is expressed in.
ReturnScale == CHOOSE m \in RiskCloses : \A c \in RiskCloses : m % c = 0

RECURSIVE SeqSum(_)
SeqSum(s) == IF s = <<>> THEN 0 ELSE Head(s) + SeqSum(Tail(s))

\* The largest k in 0..hi with k*k <= x.
ISqrt(x, hi) == CHOOSE k \in 0..hi : k * k <= x /\ (k = hi \/ (k + 1) * (k + 1) > x)

\* df.tail(lookback)
TailRows(close, lookback) ==
    SubSeq(close, Max(Len(close) - lookback, 0) + 1, Len(close))

\* recent["Close"].pct_change().dropna(), times ReturnScale
PctChange(recent) ==
    [t \in 1..(Len(recent) - 1) |->
        ((recent[t + 1] - recent[t]) * ReturnScale) \div recent[t]]

\* The sum of squared deviations from the mean, times Len(x)^2.
SquaredDeviations(x) ==
    SeqSum([i \in 1..Len(x) |->
                (Len(x) * x[i] - SeqSum(x)) * (Len(x) * x[i] - SeqSum(x))])

\* Series.std() (ddof = 1) is NaN for fewer than two values.
StdIsNaN(x) == Len(x) < 2

StdIsZero(x) == ~StdIsNaN(x) /\ SquaredDeviations(x) = 0

StdIsPositive(x) == ~StdIsNaN(x) /\ SquaredDeviations(x) > 0

Sign(v) == IF v > 0 THEN 1 ELSE IF v < 0 THEN -1 ELSE 0

\* A ratio mean / deviation * sqrt(252), kept as its sign and its square.
NaNRatio == [nan |-> TRUE, sign |-> 0, sq_num |-> 0, sq_den |-> 1]

\* sharpe = returns.mean() / returns.std() * np.sqrt(252)
Sharpe(returns) ==
    IF StdIsNaN(returns) THEN NaNRatio
    ELSE [nan |-> FALSE, sign |-> Sign(SeqSum(returns)),
          sq_num |-> 252 * SeqSum(returns) * SeqSum(returns) * (Len(returns) - 1),
          sq_den |-> SquaredDeviations(returns)]

\* returns[returns < 0]
RECURSIVE Downside(_)
Downside(returns) ==
    IF returns = <<>> THEN <<>>
    ELSE (IF Head(returns) < 0 THEN <<Head(returns)>> ELSE <<>>)
         \o Downside(Tail(returns))

\* sortino: over the downside deviation when it is positive, else sharpe * 1.5
Sortino(returns) ==
    LET d == Downside(returns)
        sharpe == Sharpe(returns)
    IN IF Len(d) > 0 /\ StdIsPositive(d)
       THEN [nan |-> FALSE, sign |-> Sign(SeqSum(returns)),
             sq_num |-> 252 * SeqSum(returns) * SeqSum(returns)
                            * Len(d) * Len(d) * (Len(d) - 1),
             sq_den |-> Len(returns) * Len(returns) * SquaredDeviations(d)]
       ELSE IF sharpe.nan THEN NaNRatio
       ELSE [nan |-> FALSE, sign |-> sharpe.sign,
             sq_num |-> 9 * sharpe.sq_num, sq_den |-> 4 * sharpe.sq_den]

\* max(0, min(1, v)) for v in hundredths
ClampUnit(v) == Max(0, Min(100, v))

\* max(0, min(1, (x + 2) / (upper + 2))) for a ratio x; min(1, nan) is 1.
RatioScore(x, upper) ==
    IF x.nan THEN 100
    ELSE IF x.sign > 0 /\ x.sq_num >= upper * upper * x.sq_den THEN 100
    ELSE IF x.sign < 0 /\ x.sq_num >= 4 * x.sq_den THEN 0
    ELSE LET sq == (x.sq_num \div x.sq_den) * 10000
                     + ((x.sq_num % x.sq_den) * 10000) \div x.sq_den
             x_h == x.sign * ISqrt(sq, 100 * upper)
         IN ClampUnit(((x_h + 200) * 100) \div (100 * (upper + 2)))

\* The highest close from the window's second row up to row t.
RECURSIVE PeakClose(_, _)
PeakClose(recent, t) ==
    IF t = 2 THEN recent[2] ELSE Max(PeakClose(recent, t - 1), recent[t])

\* max(0, min(1, 1 + max_drawdown / 0.3)) with
\* max_drawdown = ((cumulative - peak) / peak).min()
DdScore(recent) ==
    LET at(t) == ClampUnit((100 * (3 * PeakClose(recent, t)
                                   - 10 * (PeakClose(recent, t) - recent[t])))
                           \div (3 * PeakClose(recent, t)))
        worst == CHOOSE t \in 2..Len(recent) : \A u \in 2..Len(recent) : at(t) <= at(u)
    IN at(worst)

\* max(0, min(1, (win_rate - 0.3) / 0.4)) with win_rate = (returns > 0).mean()
WrScore(returns) ==
    LET wins == Cardinality({i \in 1..Len(returns) : returns[i] > 0})
    IN ClampUnit((100 * (10 * wins - 3 * Len(returns))) \div (4 * Len(returns)))

\* min(1, max(0, (annual_vol - 0.30) / 0.40)); max(0, nan) is 0.
VolPenalty(returns) ==
    IF StdIsNaN(returns) THEN 0
    ELSE LET n == Len(returns)
             den == n * n * ReturnScale * ReturnScale * (n - 1)
             q == 252 * SquaredDeviations(returns)
         IN IF 100 * q >= 49 * den THEN 100
            ELSE IF 100 * q <= 9 * den THEN 0
            ELSE ClampUnit(((ISqrt((q * 10000) \div den, 70) - 30) * 100) \div 40)

\* risk_score before the final clamp, in units of 1e-4.
RiskScoreRaw(recent) ==
    LET returns == PctChange(recent)
    IN 30 * RatioScore(Sharpe(returns), 4)
       + 20 * RatioScore(Sortino(returns), 6)
       + 20 * DdScore(recent)
       + 15 * WrScore(returns)
       - 15 * VolPenalty(returns)

\* A return value that is not clamped.
RiskScoreUnclamped(v) == v

\* return max(0, min(1, risk_score))
ClampRiskScore(v) == Max(0, Min(One, v))

\* The neutral score 0.5.
Neutral == One \div 2

\* calculate_risk_adjusted_score(df, lookback): the score and the return
\* statement that produced it.
RiskAdjustedScore(close, lookback) ==
    IF Len(close) < lookback
    THEN [branch |-> "insufficient", score |-> Neutral]
    ELSE LET recent == TailRows(close, lookback)
             returns == PctChange(recent)
         IN IF Len(returns) = 0 \/ StdIsZero(returns)
            THEN [branch |-> "no_variation", score |-> Neutral]
            ELSE [branch |-> "scored", score |-> ClampRiskScore(RiskScoreRaw(recent))]

NoRisk == [done |-> FALSE, branch |-> "none", score |-> 0]

RiskIdle ==
    /\ risk_close = <<>>
    /\ risk_lookback = 0
    /\ risk_result = NoRisk

InitRisk ==
    /\ risk_close \in UNION {[1..n -> RiskCloses] : n \in 0..MaxHist}
    /\ risk_lookback \in Lookbacks
    /\ risk_result = NoRisk

CalculateRiskAdjustedScore ==
    /\ ~risk_result.done
    /\ risk_result' =
         [done |-> TRUE,
          branch |-> RiskAdjustedScore(risk_close, risk_lookback).branch,
          score |-> RiskAdjustedScore(risk_close, risk_lookback).score]
    /\ UNCHANGED <<risk_close, risk_lookback>>

-----------------------------------------------------------------------------
(* calculate_overheat_penalty                                               *)
(* Each indicator's penalty is in units of 1e-4 (rounded down); the         *)
(* returned penalty is in units of 1/PenaltyOne.                            *)

\* Longest enumerated history (sessions).
MaxSessions == 31

\* The value 1 in the unit of the returned penalty: 0.7 * max + 0.3 * mean of
\* up to three indicator penalties is a whole number of 1/(60 * 10^4).
PenaltyOne == 60 * One

\* Closes of the three sessions before the latest one, and of the latest one;
\* every earlier session closes at 100.
InnerCloses == {100, 106, 108}

LastCloses == {100, 108, 130}

\* The enumerated histories: 29 sessions and more.
OverheatFrames ==
    {[i \in 1..(n - 4) |-> 100] \o inner \o <<last>> :
        n \in 29..MaxSessions, inner \in [1..3 -> InnerCloses], last \in LastCloses}

\* A guard that lets a 29-session history through.
TooShortLenient(close) == Len(close) < 29

\* len(df) < 30
TooShort(close) == Len(close) < 30

\* close.diff() at row t
Delta(close, t) == close[t] - close[t - 1]

\* 14 * gain.iloc[-1]: the gains of the last 14 sessions
GainSum(close) ==
    SeqSum([k \in 1..14 |-> Max(Delta(close, Len(close) - 14 + k), 0)])

\* 14 * loss.iloc[-1]: the losses of the last 14 sessions
LossSum(close) ==
    SeqSum([k \in 1..14 |-> Max(-Delta(close, Len(close) - 14 + k), 0)])

\* 25 * sma25: the closes of the last 25 sessions
Sum25(close) == SeqSum(SubSeq(close, Len(close) - 24, Len(close)))

\* The RSI(14) term: rs is NaN when the window has no loss (loss.replace(0,
\* nan)), and then no penalty is appended; otherwise rsi = 100*gain/(gain+loss),
\* appended when rsi > 75 as min(1, (rsi - 75) / 25).
RsiPenalties(close) ==
    LET g == GainSum(close)
        l == LossSum(close)
    IN IF l = 0 THEN <<>>
       ELSE IF 100 * g > 75 * (g + l)
       THEN <<Min(One, ((g - 3 * l) * One) \div (g + l))>>
       ELSE <<>>

\* The deviation term: deviation = (recent_close - sma25) / sma25, appended
\* when deviation > 0.15 as min(1, (deviation - 0.15) / 0.25).
DeviationPenalties(close) ==
    LET sum == Sum25(close)
        c == close[Len(close)]
    IN IF sum > 0 /\ 100 * (25 * c - sum) > 15 * sum
       THEN <<Min(One, ((100 * (25 * c - sum) - 15 * sum) * (One \div 25)) \div sum)>>
       ELSE <<>>

\* The 5-session return term: five_day_return = recent_close / close.iloc[-6]
\* - 1, appended when it exceeds 0.10 as min(1, (return - 0.10) / 0.20).
ReturnPenalties(close) ==
    LET c == close[Len(close)]
        c6 == close[Len(close) - 5]
    IN IF Len(close) >= 6 /\ 10 * (c - c6) > c6
       THEN <<Min(One, ((10 * (c - c6) - c6) * (One \div 2)) \div c6)>>
       ELSE <<>>

\* max(penalties)
SeqMax(s) == CHOOSE m \in Range(s) : \A x \in Range(s) : m >= x

\* max(penalties) * 0.7 + np.mean(penalties) * 0.3
Combine(penalties) ==
    42 * SeqMax(penalties) + (18 \div Len(penalties)) * SeqSum(penalties)

NoOverheat ==
    [called |-> FALSE, gain |-> 0, loss |-> 0, sum25 |-> 0, recent_close |-> 0,
     close_6 |-> 0, penalties |-> <<>>, penalty |-> 0]

\* calculate_overheat_penalty(df), with the quantities it computes on the way.
OverheatPenalty(close) ==
    IF TooShort(close)
    THEN [NoOverheat EXCEPT !.called = TRUE]
    ELSE LET penalties == RsiPenalties(close) \o DeviationPenalties(close)
                            \o ReturnPenalties(close)
         IN [called |-> TRUE,
             gain |-> GainSum(close),
             loss |-> LossSum(close),
             sum25 |-> Sum25(close),
             recent_close |-> close[Len(close)],
             close_6 |-> close[Len(close) - 5],
             penalties |-> penalties,
             penalty |-> IF penalties = <<>> THEN 0 ELSE Combine(penalties)]

OverheatIdle ==
    /\ oh_close = <<>>
    /\ oh_result = NoOverheat

\* One call of calculate_overheat_penalty on the frame handed in.
CalculateOverheatPenalty ==
    \E close \in OverheatFrames :
        /\ oh_close' = close
        /\ oh_result' = OverheatPenalty(close)

-----------------------------------------------------------------------------
(* evaluate_backtest                                                        *)
(* Realized returns are whole percents; a daily portfolio return is kept in *)
(* units of 1/600 (the mean of one, two or three percents).                 *)

\* Most dates in the predictions frame.
MaxBtDates == 2

BtDates == 1..MaxBtDates

BtTickers == {"A", "B", "C"}

\* 6 / n is whole for the portfolio sizes n that occur (1..3).
MeanScale == 6

\* The rows of one date of the predictions frame, in frame order: no row, one
\* instrument, three instruments, three instruments with two tied scores.
DayFrames ==
    { <<>>,
      <<[ticker |-> "B", weighted_score |-> 60]>>,
      <<[ticker |-> "A", weighted_score |-> 80], [ticker |-> "B", weighted_score |-> 60],
        [ticker |-> "C", weighted_score |-> 40]>>,
      <<[ticker |-> "C", weighted_score |-> 40], [ticker |-> "B", weighted_score |-> 60],
        [ticker |-> "A", weighted_score |-> 60]>> }

\* A return cell: a whole percent or NaN.
Ret(v) == [nan |-> FALSE, v |-> v]

RetNaN == [nan |-> TRUE, v |-> 0]

\* The rows of the actual_returns frame that are drawn for one date.
ReturnRows ==
    { [t \in BtTickers |-> IF t = "A" THEN Ret(2) ELSE IF t = "B" THEN Ret(-1) ELSE Ret(0)],
      [t \in BtTickers |-> IF t = "B" THEN Ret(4) ELSE RetNaN],
      [t \in BtTickers |-> IF t = "A" THEN Ret(0) ELSE IF t = "B" THEN Ret(2) ELSE Ret(-2)] }

\* The column sets of the actual_returns frame that are drawn.
ReturnColumns == {BtTickers, {"A", "B"}, {}}

\* The rows of the predictions frame for the dates of a choice of day frames.
RECURSIVE FrameRows(_, _)
FrameRows(days, d) ==
    IF d > MaxBtDates THEN <<>>
    ELSE [i \in 1..Len(days[d]) |->
             [date |-> d, ticker |-> days[d][i].ticker,
              weighted_score |-> days[d][i].weighted_score]]
         \o FrameRows(days, d + 1)

PredictionsFrames == {FrameRows(days, 1) : days \in [BtDates -> DayFrames]}

\* The actual_returns frames: for every date either no row or one of
\* ReturnRows, restricted to the frame's columns.
ActualReturnsFrames ==
    {[index |-> index,
      columns |-> cols,
      value |-> [d \in index |-> [t \in cols |-> rows[d][t]]]] :
        index \in SUBSET BtDates, rows \in [BtDates -> ReturnRows],
        cols \in ReturnColumns}

\* DataFrame.empty: some axis has length 0.
PredictionsEmpty(predictions_df) == predictions_df = <<>>

ReturnsEmpty(actual_returns) ==
    actual_returns.index = {} \/ actual_returns.columns = {}

\* predictions.index.unique().sort_values()
BtDatesOf(predictions_df) ==
    SortedSeq({predictions_df[i].date : i \in 1..Len(predictions_df)})

\* predictions.loc[date]: the rows labelled date, in frame order.
RowAtDate(predictions_df, date) ==
    LET F[i \in 0..Len(predictions_df)] ==
            IF i = 0 THEN <<>>
            ELSE IF predictions_df[i].date = date THEN Append(F[i - 1], predictions_df[i])
                 ELSE F[i - 1]
    IN F[Len(predictions_df)]

\* isinstance(day_preds, pd.Series): .loc on a label carried by exactly one
\* row returns that row as a Series.
IsSeries(day_preds) == Len(day_preds) = 1

\* The position of row i in nlargest's result: rows with a larger score come
\* first, and among equal scores the earlier row (keep="first").
NLargestPos(day_preds, i) ==
    1 + Cardinality({j \in 1..Len(day_preds) :
                       \/ day_preds[j].weighted_score > day_preds[i].weighted_score
                       \/ /\ day_preds[j].weighted_score = day_preds[i].weighted_score
                          /\ j < i})

\* day_preds.nlargest(top_n, "weighted_score")["ticker"].tolist()
TopTickers(day_preds, top_n) ==
    [k \in 1..Min(top_n, Len(day_preds)) |->
        day_preds[CHOOSE i \in 1..Len(day_preds) : NLargestPos(day_preds, i) = k].ticker]

\* A trade with a return of exactly 0 counted as a win.
IsWinOrFlat(ret) == ret >= 0

\* ret > 0
IsWin(ret) == ret > 0

\* The realized returns appended for the selected instruments of a date: the
\* instrument is a column, the date is in the index, the cell is not NaN.
DayReturns(actual_returns, date, top_tickers) ==
    LET F[k \in 0..Len(top_tickers)] ==
            IF k = 0 THEN <<>>
            ELSE LET ticker == top_tickers[k]
                 IN IF /\ ticker \in actual_returns.columns
                       /\ date \in actual_returns.index
                       /\ ~actual_returns.value[date][ticker].nan
                    THEN Append(F[k - 1], actual_returns.value[date][ticker].v)
                    ELSE F[k - 1]
    IN F[Len(top_tickers)]

\* np.mean(day_returns), in units of 1/600
PortfolioReturn(day_returns) == SeqSum(day_returns) * (MeanScale \div Len(day_returns))

\* The number of wins among appended returns.
Wins(day_returns) == Cardinality({k \in 1..Len(day_returns) : IsWin(day_returns[k])})

\* The results dictionary as initialised.
EmptyResults ==
    [total_trades |-> 0, winning_trades |-> 0, losing_trades |-> 0, win_rate |-> 0,
     avg_return |-> 0, daily_returns |-> <<>>, dates_used |-> <<>>]

\* The loop over the dates: the counters and the daily returns after the
\* first k dates (dates_used records which dates appended a daily return).
BacktestLoop(predictions_df, actual_returns, top_n) ==
    LET dates == BtDatesOf(predictions_df)
        F[k \in 0..Len(dates)] ==
            IF k = 0 THEN EmptyResults
            ELSE LET day_preds == RowAtDate(predictions_df, dates[k])
                     day_returns == DayReturns(actual_returns, dates[k],
                                               TopTickers(day_preds, top_n))
                     prev == F[k - 1]
                 IN IF IsSeries(day_preds) THEN prev
                    ELSE [prev EXCEPT
                            !.total_trades = @ + Len(day_returns),
                            !.winning_trades = @ + Wins(day_returns),
                            !.losing_trades = @ + Len(day_returns) - Wins(day_returns),
                            !.daily_returns =
                                IF day_returns = <<>> THEN @
                                ELSE Append(@, PortfolioReturn(day_returns)),
                            !.dates_used =
                                IF day_returns = <<>> THEN @ ELSE Append(@, dates[k])]
    IN F[Len(dates)]

\* evaluate_backtest(predictions_df, actual_returns, top_n): the counters, the
\* daily returns, win_rate (units of 1e-4) and avg_return (units of 1/3600).
\* sharpe_ratio, total_return and max_drawdown are further statistics of
\* daily_returns alone.
EvaluateBacktestResult(predictions_df, actual_returns, top_n) ==
    IF PredictionsEmpty(predictions_df) \/ ReturnsEmpty(actual_returns)
    THEN EmptyResults
    ELSE LET r == BacktestLoop(predictions_df, actual_returns, top_n)
         IN IF r.daily_returns = <<>> THEN r
            ELSE [r EXCEPT
                    !.avg_return = SeqSum(r.daily_returns)
                                     * (MeanScale \div Len(r.daily_returns)),
                    !.win_rate = IF r.total_trades > 0
                                 THEN (r.winning_trades * One) \div r.total_trades
                                 ELSE 0]

NoBacktest == [done |-> FALSE, results |-> EmptyResults]

BacktestIdle ==
    /\ bt_predictions = <<>>
    /\ bt_returns = [index |-> {}, columns |-> {}, value |-> <<>>]
    /\ bt_top_n = 0
    /\ bt_result = NoBacktest

InitBacktest ==
    /\ bt_predictions \in PredictionsFrames
    /\ bt_returns \in ActualReturnsFrames
    /\ bt_top_n \in {1, 2, TOP_N}
    /\ bt_result = NoBacktest

\* One call of evaluate_backtest on the frames handed in.
EvaluateBacktest ==
    /\ ~bt_result.done
    /\ bt_result' = [done |-> TRUE,
                     results |-> EvaluateBacktestResult(bt_predictions, bt_returns, bt_top_n)]
    /\ UNCHANGED <<bt_predictions, bt_returns, bt_top_n>>

-----------------------------------------------------------------------------
(* The per-instrument loops: phase_features, predict_all_stocks             *)

\* Most instruments in a batch.
MaxBatch == 3

BatchTickers == <<"A", "B", "C", "D">>

\* The weighted_score predict_single_stock returns for an instrument, in
\* hundredths; two instruments share a score.
BatchScore(ticker) ==
    IF ticker = "A" THEN 40 ELSE IF ticker = "D" THEN 80 ELSE 60

\* The batches: for every instrument, whether its feature computation raises
\* and whether its prediction raises.
Batches ==
    UNION {{[i \in 1..n |-> [ticker |-> BatchTickers[i],
                             features_raise |-> fr[i],
                             predict_raise |-> pr[i]]] :
               fr \in [1..n -> BOOLEAN], pr \in [1..n -> BOOLEAN]} :
           n \in 1..MaxBatch}

\* A log line that carries no count.
NoLine == [kind |-> "none", counts |-> <<>>]

FbIdle ==
    [pc |-> "idle", i |-> 0, all_data |-> <<>>, success |-> 0, fail |-> 0,
     log |-> NoLine]

PbIdle ==
    [pc |-> "idle", i |-> 0, results |-> <<>>, result_df |-> <<>>,
     log |-> NoLine]

BatchIdle ==
    /\ batch = <<>>
    /\ fb = FbIdle
    /\ pb = PbIdle

\* phase_features is entered with a non-empty price_data.
InitBatch ==
    /\ batch \in Batches
    /\ fb = [FbIdle EXCEPT !.pc = "loop", !.i = 1]
    /\ pb = PbIdle

\* One iteration of phase_features' loop: the try body stores the featured
\* frame and counts a success; the except clause counts a failure.
FeaturesInstrument ==
    /\ fb.pc = "loop"
    /\ fb.i <= Len(batch)
    /\ fb' = IF batch[fb.i].features_raise
             THEN [fb EXCEPT !.fail = @ + 1, !.i = @ + 1]
             ELSE [fb EXCEPT !.all_data = Append(@, batch[fb.i]),
                             !.success = @ + 1, !.i = @ + 1]
    /\ UNCHANGED <<batch, pb>>

\* The end of phase_features: the log line with both counts, return all_data;
\* predict_all_stocks is then entered with it (models are on disk).
FeaturesReport ==
    /\ fb.pc = "loop"
    /\ fb.i > Len(batch)
    /\ fb' = [fb EXCEPT !.pc = "done",
                        !.log = [kind |-> "info",
                                 counts |-> [success |-> fb.success, fail |-> fb.fail]]]
    /\ pb' = [pb EXCEPT !.pc = "loop", !.i = 1]
    /\ UNCHANGED batch

\* One iteration of predict_all_stocks' loop: the try body appends the
\* prediction; the except clause only writes a debug line.
PredictInstrument ==
    /\ pb.pc = "loop"
    /\ pb.i <= Len(fb.all_data)
    /\ pb' = IF fb.all_data[pb.i].predict_raise
             THEN [pb EXCEPT !.i = @ + 1]
             ELSE [pb EXCEPT !.results =
                                Append(@, [ticker |-> fb.all_data[pb.i].ticker,
                                           weighted_score |->
                                               BatchScore(fb.all_data[pb.i].ticker)]),
                             !.i = @ + 1]
    /\ UNCHANGED <<batch, fb>>

\* result_df.sort_values("weighted_score", ascending=False).reset_index(): any
\* descending arrangement of the rows.
SortedByWeightedScore(rows) ==
    {[k \in 1..Len(rows) |-> rows[o[k]]] : o \in
        {o \in RowOrders(Len(rows)) :
            \A k \in 1..(Len(rows) - 1) :
                rows[o[k]].weighted_score >= rows[o[k + 1]].weighted_score}}

\* The end of predict_all_stocks: an error line and an empty frame when no
\* prediction was collected, else the sorted frame and a line with its length.
PredictReport ==
    /\ pb.pc = "loop"
    /\ pb.i > Len(fb.all_data)
    /\ IF pb.results = <<>>
       THEN pb' = [pb EXCEPT !.pc = "done", !.log = [kind |-> "error", counts |-> <<>>]]
       ELSE \E df \in SortedByWeightedScore(pb.results) :
                pb' = [pb EXCEPT !.pc = "done", !.result_df = df,
                                 !.log = [kind |-> "info",
                                          counts |-> [success |-> Len(df)]]]
    /\ UNCHANGED <<batch, fb>>

-----------------------------------------------------------------------------
(* save_model and load_model, running in two processes on one horizon       *)
(* A file is the sequence of the chunks written to it so far; a chunk is    *)
(* tagged with the number of the save_model call that wrote it.             *)

\* Most save_model calls.
MaxSaves == 2

\* Chunks of a complete model file.
ModelChunks == 2

NoFile == [exists |-> FALSE, chunks |-> <<>>]

\* The files a training run of some earlier day may have left.
EarlierFiles ==
    { [model |-> NoFile, metrics |-> NoFile],
      [model |-> [exists |-> TRUE, chunks |-> [k \in 1..ModelChunks |-> 0]],
       metrics |-> [exists |-> TRUE, chunks |-> <<0>>]] }

SvIdle == [pc |-> "idle", call |-> 0, metrics |-> FALSE]

LdIdle == [pc |-> "idle", read |-> <<>>, result |-> "none"]

ArtifactIdle ==
    /\ art = [model |-> NoFile, metrics |-> NoFile]
    /\ sv = SvIdle
    /\ ld = LdIdle

InitArtifact ==
    /\ art \in EarlierFiles
    /\ sv = SvIdle
    /\ ld = LdIdle

\* model.save_model(str(model_path)), first part: the file at model_path is
\* opened for writing, which creates it or cuts it to length 0.
SaveModelOpen ==
    /\ sv.pc = "idle"
    /\ sv.call < MaxSaves
    /\ \E metrics \in BOOLEAN :
         sv' = [pc |-> "model", call |-> sv.call + 1, metrics |-> metrics]
    /\ art' = [art EXCEPT !.model = [exists |-> TRUE, chunks |-> <<>>]]
    /\ UNCHANGED ld

\* model.save_model, the model text is written to the open file.
SaveModelWrite ==
    /\ sv.pc = "model"
    /\ Len(art.model.chunks) < ModelChunks
    /\ art' = [art EXCEPT !.model.chunks = Append(@, sv.call)]
    /\ UNCHANGED <<sv, ld>>

\* model.save_model returns; `if metrics:`
SaveModelClose ==
    /\ sv.pc = "model"
    /\ Len(art.model.chunks) = ModelChunks
    /\ sv' = [sv EXCEPT !.pc = IF sv.metrics THEN "metrics" ELSE "idle"]
    /\ UNCHANGED <<art, ld>>

\* open(metrics_path, "wb")
SaveMetricsOpen ==
    /\ sv.pc = "metrics"
    /\ art' = [art EXCEPT !.metrics = [exists |-> TRUE, chunks |-> <<>>]]
    /\ sv' = [sv EXCEPT !.pc = "dump"]
    /\ UNCHANGED ld

\* pickle.dump(metrics, f), the file is closed, save_model returns.
SaveMetricsDump ==
    /\ sv.pc = "dump"
    /\ art' = [art EXCEPT !.metrics.chunks = <<sv.call>>]
    /\ sv' = [sv EXCEPT !.pc = "idle"]
    /\ UNCHANGED ld

\* load_model: `if not model_path.exists(): return None`
LoadModelExists ==
    /\ ld.pc = "idle"
    /\ ld' = IF art.model.exists
             THEN [pc |-> "reading", read |-> <<>>, result |-> "none"]
             ELSE [pc |-> "done", read |-> <<>>, result |-> "missing"]
    /\ UNCHANGED <<art, sv>>

\* lgb.Booster(model_file=...): the next chunk of the file is read, or the end
\* of the file is met and the Booster is built from what was read.
LoadModelRead ==
    /\ ld.pc = "reading"
    /\ ld' = IF Len(ld.read) < Len(art.model.chunks)
             THEN [ld EXCEPT !.read = Append(@, art.model.chunks[Len(ld.read) + 1])]
             ELSE [ld EXCEPT !.pc = "done", !.result = "loaded"]
    /\ UNCHANGED <<art, sv>>

\* load_model returns; the prediction process may call it again.
LoadModelReturn ==
    /\ ld.pc = "done"
    /\ ld' = LdIdle
    /\ UNCHANGED <<art, sv>>

-----------------------------------------------------------------------------
(* The ranking passes of phase_predict: calculate_composite_score,          *)
(* get_top_n, save_daily_report                                             *)

\* Most ranking passes, and the days they may spread over.
MaxPasses == 2

MaxReportDays == 2

ReportDates == 1..MaxReportDays

\* The prediction frames a pass may be given (predictions is not empty).
ReportFrames == PredictionFrames(1)

NoReport == [written |-> FALSE]

RpIdle == [pc |-> "idle", today |-> 0, given |-> <<>>, stored |-> <<>>]

ReportIdle ==
    /\ rp = RpIdle
    /\ report_dir = <<>>

InitReport ==
    /\ prediction_df \in ReportFrames
    /\ scored_df = NoScored
    /\ top_df = NoTop
    /\ rp = [pc |-> "score", today |-> 1, given |-> prediction_df, stored |-> <<>>]
    /\ report_dir = [d \in ReportDates |-> NoReport]

\* scored = calculate_composite_score(predictions, price_data);
\* top_n = get_top_n(scored)
ScorePass ==
    /\ rp.pc = "score"
    /\ \E sorted \in SortValuesDescending(WithComposite(prediction_df)) :
         /\ scored_df' = [done |-> TRUE, rows |-> WithRank(sorted)]
         /\ top_df' = [done |-> TRUE, n |-> TOP_N,
                       rows |-> HeadRows(WithRank(sorted), TOP_N)]
    /\ rp' = [rp EXCEPT !.pc = "save"]
    /\ UNCHANGED <<prediction_df, report_dir>>

\* The files save_daily_report writes into DAILY_REPORT_DIR / date_str.
ReportFiles(date_str, scored, top) ==
    [written |-> TRUE,
     all_scores_csv |-> scored,
     top_picks_csv |-> top,
     report_txt |-> top,
     report_json |-> [date |-> date_str,
                      top_picks |-> top,
                      total_stocks_evaluated |-> Len(scored),
                      top_n |-> Len(top),
                      avg_composite_score |->
                          SeqSum([k \in 1..Len(top) |-> top[k].composite_score])
                              \div Len(top)]]

\* save_daily_report(scored, top_n, gemini_review): the directory of today's
\* date is created if missing and its four files are written.
SaveDailyReport ==
    /\ rp.pc = "save"
    /\ LET files == ReportFiles(rp.today, scored_df.rows, top_df.rows)
       IN /\ report_dir' = [report_dir EXCEPT ![rp.today] = files]
          /\ rp' = [rp EXCEPT !.pc = "done",
                              !.stored = Append(@, [date |-> rp.today, files |-> files])]
    /\ UNCHANGED rank_vars

\* The next run of phase_predict, on the same day or on the next one.
NextPass ==
    /\ rp.pc = "done"
    /\ Len(rp.stored) < MaxPasses
    /\ \E today \in {rp.today, rp.today + 1} \cap ReportDates, df \in ReportFrames :
         /\ prediction_df' = df
         /\ rp' = [rp EXCEPT !.pc = "score", !.today = today, !.given = df]
    /\ scored_df' = NoScored
    /\ top_df' = NoTop
    /\ UNCHANGED report_dir

-----------------------------------------------------------------------------
(* The date windows of walk_forward_train on long histories                 *)

\* Most unique valid dates.
MaxWindowDays == 320

\* The sorted unique dates of a pooled set with n dates.
WindowDates(n) == [i \in 1..n |-> i]

NoWindows ==
    [done |-> FALSE, total_days |-> 0, test_days |-> 0, val_days |-> 0,
     train_end_idx |-> 0, train_dates |-> <<>>, val_dates |-> <<>>,
     test_dates |-> <<>>]

WindowsIdle ==
    /\ wf_dates = <<>>
    /\ wf_windows = NoWindows

InitWindows ==
    /\ wf_dates \in {WindowDates(n) : n \in 0..MaxWindowDays}
    /\ wf_windows = NoWindows

\* walk_forward_train from total_days = len(dates) to the three date windows.
SplitDates ==
    /\ ~wf_windows.done
    /\ wf_windows' =
         [done |-> TRUE,
          total_days |-> Len(wf_dates),
          test_days |-> TestDays(Len(wf_dates)),
          val_days |-> ValDays(Len(wf_dates)),
          train_end_idx |-> TrainEndIdx(Len(wf_dates)),
          train_dates |-> TrainDates(wf_dates),
          val_dates |-> ValDates(wf_dates),
          test_dates |-> TestDates(wf_dates)]
    /\ UNCHANGED wf_dates

-----------------------------------------------------------------------------
(* train_model's hyperparameters                                            *)
(* A dictionary is a function from its keys to their values (fractions in   *)
(* hundredths).                                                             *)

\* Most train_model calls.
MaxTrainCalls == 4

\* settings.LGBM_DEFAULT_PARAMS as configured.
LGBM_DEFAULT_PARAMS ==
    [objective |-> "binary", metric |-> "auc", boosting_type |-> "gbdt",
     num_leaves |-> 63, learning_rate |-> 5, feature_fraction |-> 80,
     bagging_fraction |-> 80, bagging_freq |-> 5, verbose |-> -1,
     n_estimators |-> 1000, early_stopping_rounds |-> 50, seed |-> 42]

\* What optimize_hyperparams returns: the study's best parameters with the
\* fixed entries, a dictionary of its own.
BestParams ==
    [num_leaves |-> 20, learning_rate |-> 1, feature_fraction |-> 50,
     bagging_fraction |-> 50, bagging_freq |-> 1, min_child_samples |-> 5,
     lambda_l1 |-> 0, lambda_l2 |-> 0, max_depth |-> 3,
     objective |-> "binary", metric |-> "auc", boosting_type |-> "gbdt",
     verbosity |-> -1, seed |-> 42, n_estimators |-> 1000]

\* params = settings.LGBM_DEFAULT_PARAMS: the name is bound to the module's
\* own dictionary.
DefaultParamsAliased == "alias"

\* params = settings.LGBM_DEFAULT_PARAMS.copy(): the name is bound to a new
\* dictionary with the same entries.
DefaultParamsBinding == "copy"

\* d.pop(key, default): the dictionary without the key.
Pop(d, key) == [k \in (DOMAIN d) \ {key} |-> d[k]]

\* d.pop(key, default): the value returned.
PopValue(d, key, default) == IF key \in DOMAIN d THEN d[key] ELSE default

NoFrame ==
    [pc |-> "idle", optimize |-> FALSE, binding |-> "none", params |-> <<>>,
     entered_with |-> <<>>, num_iterations |-> 0]

ParamsIdle ==
    /\ default_params = <<>>
    /\ tm = [frame |-> NoFrame, calls |-> <<>>]

InitParams ==
    /\ default_params = LGBM_DEFAULT_PARAMS
    /\ tm = [frame |-> NoFrame, calls |-> <<>>]

\* train_model(X_train, y_train, X_val, y_val, optimize=optimize): params is
\* None, so it is searched or taken from the defaults.
TrainModelEnter ==
    /\ tm.frame.pc = "idle"
    /\ Len(tm.calls) < MaxTrainCalls
    /\ \E optimize \in BOOLEAN :
         LET params == IF optimize THEN BestParams ELSE default_params
         IN tm' = [tm EXCEPT !.frame =
                      [pc |-> "pop", optimize |-> optimize,
                       binding |-> IF optimize THEN "own" ELSE DefaultParamsBinding,
                       params |-> params, entered_with |-> params,
                       num_iterations |-> 0]]
    /\ UNCHANGED default_params

\* num_iterations = params.pop("n_estimators", 1000);
\* params.pop("early_stopping_rounds", None): the dictionary params is bound
\* to loses the two keys.
TrainModelPop ==
    /\ tm.frame.pc = "pop"
    /\ LET popped == Pop(Pop(tm.frame.params, "n_estimators"), "early_stopping_rounds")
       IN /\ tm' = [tm EXCEPT !.frame.pc = "fit",
                              !.frame.params = popped,
                              !.frame.num_iterations =
                                  PopValue(tm.frame.params, "n_estimators", 1000)]
          /\ default_params' = IF tm.frame.binding = "alias" THEN popped
                               ELSE default_params

\* lgb.train(params, ..., num_boost_round=num_iterations, ...) and the
\* validation metrics; the call returns the model or raises.
TrainModelFit ==
    /\ tm.frame.pc = "fit"
    /\ \E raises \in BOOLEAN :
         tm' = [frame |-> NoFrame,
                calls |-> Append(tm.calls,
                                 [optimize |-> tm.frame.optimize,
                                  num_iterations |-> tm.frame.num_iterations,
                                  had_early_stopping |->
                                      "early_stopping_rounds" \in DOMAIN tm.frame.entered_with,
                                  raised |-> raises])]
    /\ UNCHANGED default_params

-----------------------------------------------------------------------------
(* Specifications *)

OtherIdle ==
    /\ BacktestIdle /\ BatchIdle /\ ArtifactIdle /\ ReportIdle
    /\ WindowsIdle /\ ParamsIdle

ScoringIdle == RankIdle /\ RiskIdle /\ OverheatIdle /\ OtherIdle


PredictIdle ==
    /\ df_cols = <<>>
    /\ df_nan = {}
    /\ models = <<>>
    /\ model_out = <<>>
    /\ pred = NoPred

PipelineIdle == InitPipeline

NextTrain ==
    \/ PhaseFeatures /\ UNCHANGED <<predict_vars, pipeline_vars, scoring_vars>>
    \/ WalkForwardTrain /\ UNCHANGED <<predict_vars, pipeline_vars, scoring_vars>>

InitSpecTrain == InitTrain /\ PredictIdle /\ PipelineIdle /\ ScoringIdle

NextPredict == PredictSingleStock /\ UNCHANGED <<train_vars, pipeline_vars, scoring_vars>>

InitSpecPredict == TrainIdle /\ InitPredict /\ PipelineIdle /\ ScoringIdle

NextPipeline ==
    \/ StartRun /\ UNCHANGED <<train_vars, predict_vars, scoring_vars>>
    \/ TrainHorizon /\ UNCHANGED <<train_vars, predict_vars, scoring_vars>>
    \/ FinishTraining /\ UNCHANGED <<train_vars, predict_vars, scoring_vars>>
    \/ PhasePredict /\ UNCHANGED <<train_vars, predict_vars, scoring_vars>>

Init == TrainIdle /\ PredictIdle /\ InitPipeline /\ ScoringIdle

Next == NextPipeline

\* The runs of main.py over the shared model directory.
Spec == Init /\ [][Next]_vars

\* predict_single_stock on bounded inputs.
SpecPredict == InitSpecPredict /\ [][NextPredict]_vars

\* The training data path on bounded inputs.
SpecTrain == InitSpecTrain /\ [][NextTrain]_vars

NextRank ==
    \/ CalculateCompositeScore
          /\ UNCHANGED <<train_vars, predict_vars, pipeline_vars, risk_vars, overheat_vars, other_vars>>
    \/ GetTopN /\ UNCHANGED <<train_vars, predict_vars, pipeline_vars, risk_vars, overheat_vars, other_vars>>

InitSpecRank ==
    /\ TrainIdle /\ PredictIdle /\ PipelineIdle
    /\ InitRank /\ RiskIdle /\ OverheatIdle /\ OtherIdle

\* calculate_composite_score and get_top_n on bounded frames.
SpecRank == InitSpecRank /\ [][NextRank]_vars

NextRisk ==
    CalculateRiskAdjustedScore
        /\ UNCHANGED <<train_vars, predict_vars, pipeline_vars, rank_vars, overheat_vars, other_vars>>

InitSpecRisk ==
    /\ TrainIdle /\ PredictIdle /\ PipelineIdle
    /\ RankIdle /\ InitRisk /\ OverheatIdle /\ OtherIdle

\* calculate_risk_adjusted_score on bounded histories.
SpecRisk == InitSpecRisk /\ [][NextRisk]_vars

NextOverheat ==
    CalculateOverheatPenalty
        /\ UNCHANGED <<train_vars, predict_vars, pipeline_vars, rank_vars, risk_vars, other_vars>>

InitSpecOverheat == TrainIdle /\ PredictIdle /\ PipelineIdle /\ ScoringIdle

\* calculate_overheat_penalty, called again and again on bounded histories.
SpecOverheat == InitSpecOverheat /\ [][NextOverheat]_vars

NextBacktest ==
    EvaluateBacktest
        /\ UNCHANGED <<train_vars, predict_vars, pipeline_vars, rank_vars, risk_vars,
                       overheat_vars, batch_vars, artifact_vars, report_vars,
                       windows_vars, params_vars>>

InitSpecBacktest ==
    /\ TrainIdle /\ PredictIdle /\ PipelineIdle
    /\ RankIdle /\ RiskIdle /\ OverheatIdle
    /\ InitBacktest /\ BatchIdle /\ ArtifactIdle /\ ReportIdle
    /\ WindowsIdle /\ ParamsIdle

\* evaluate_backtest on bounded frames.
SpecBacktest == InitSpecBacktest /\ [][NextBacktest]_vars

NextBatch ==
    \/ FeaturesInstrument
          /\ UNCHANGED <<train_vars, predict_vars, pipeline_vars, rank_vars, risk_vars,
                         overheat_vars, backtest_vars, artifact_vars, report_vars,
                         windows_vars, params_vars>>
    \/ FeaturesReport
          /\ UNCHANGED <<train_vars, predict_vars, pipeline_vars, rank_vars, risk_vars,
                         overheat_vars, backtest_vars, artifact_vars, report_vars,
                         windows_vars, params_vars>>
    \/ PredictInstrument
          /\ UNCHANGED <<train_vars, predict_vars, pipeline_vars, rank_vars, risk_vars,
                         overheat_vars, backtest_vars, artifact_vars, report_vars,
                         windows_vars, params_vars>>
    \/ PredictReport
          /\ UNCHANGED <<train_vars, predict_vars, pipeline_vars, rank_vars, risk_vars,
                         overheat_vars, backtest_vars, artifact_vars, report_vars,
                         windows_vars, params_vars>>

InitSpecBatch ==
    /\ TrainIdle /\ PredictIdle /\ PipelineIdle
    /\ RankIdle /\ RiskIdle /\ OverheatIdle
    /\ BacktestIdle /\ InitBatch /\ ArtifactIdle /\ ReportIdle
    /\ WindowsIdle /\ ParamsIdle

\* The per-instrument loops of phase_features and predict_all_stocks.
SpecBatch == InitSpecBatch /\ [][NextBatch]_vars

NextArtifact ==
    \/ SaveModelOpen
          /\ UNCHANGED <<train_vars, predict_vars, pipeline_vars, rank_vars, risk_vars,
                         overheat_vars, backtest_vars, batch_vars, report_vars,
                         windows_vars, params_vars>>
    \/ SaveModelWrite
          /\ UNCHANGED <<train_vars, predict_vars, pipeline_vars, rank_vars, risk_vars,
                         overheat_vars, backtest_vars, batch_vars, report_vars,
                         windows_vars, params_vars>>
    \/ SaveModelClose
          /\ UNCHANGED <<train_vars, predict_vars, pipeline_vars, rank_vars, risk_vars,
                         overheat_vars, backtest_vars, batch_vars, report_vars,
                         windows_vars, params_vars>>
    \/ SaveMetricsOpen
          /\ UNCHANGED <<train_vars, predict_vars, pipeline_vars, rank_vars, risk_vars,
                         overheat_vars, backtest_vars, batch_vars, report_vars,
                         windows_vars, params_vars>>
    \/ SaveMetricsDump
          /\ UNCHANGED <<train_vars, predict_vars, pipeline_vars, rank_vars, risk_vars,
                         overheat_vars, backtest_vars, batch_vars, report_vars,
                         windows_vars, params_vars>>
    \/ LoadModelExists
          /\ UNCHANGED <<train_vars, predict_vars, pipeline_vars, rank_vars, risk_vars,
                         overheat_vars, backtest_vars, batch_vars, report_vars,
                         windows_vars, params_vars>>
    \/ LoadModelRead
          /\ UNCHANGED <<train_vars, predict_vars, pipeline_vars, rank_vars, risk_vars,
                         overheat_vars, backtest_vars, batch_vars, report_vars,
                         windows_vars, params_vars>>
    \/ LoadModelReturn
          /\ UNCHANGED <<train_vars, predict_vars, pipeline_vars, rank_vars, risk_vars,
                         overheat_vars, backtest_vars, batch_vars, report_vars,
                         windows_vars, params_vars>>

InitSpecArtifact ==
    /\ TrainIdle /\ PredictIdle /\ PipelineIdle
    /\ RankIdle /\ RiskIdle /\ OverheatIdle
    /\ BacktestIdle /\ BatchIdle /\ InitArtifact /\ ReportIdle
    /\ WindowsIdle /\ ParamsIdle

\* A training process saving and a prediction process loading one horizon's
\* model, interleaved.
SpecArtifact == InitSpecArtifact /\ [][NextArtifact]_vars

NextReport ==
    \/ ScorePass
          /\ UNCHANGED <<train_vars, predict_vars, pipeline_vars, risk_vars,
                         overheat_vars, backtest_vars, batch_vars, artifact_vars,
                         windows_vars, params_vars>>
    \/ SaveDailyReport
          /\ UNCHANGED <<train_vars, predict_vars, pipeline_vars, risk_vars,
                         overheat_vars, backtest_vars, batch_vars, artifact_vars,
                         windows_vars, params_vars>>
    \/ NextPass
          /\ UNCHANGED <<train_vars, predict_vars, pipeline_vars, risk_vars,
                         overheat_vars, backtest_vars, batch_vars, artifact_vars,
                         windows_vars, params_vars>>

InitSpecReport ==
    /\ TrainIdle /\ PredictIdle /\ PipelineIdle
    /\ RiskIdle /\ OverheatIdle /\ BacktestIdle /\ BatchIdle /\ ArtifactIdle
    /\ InitReport
    /\ WindowsIdle /\ ParamsIdle

\* Ranking passes that store their daily report, one after the other.
SpecReport == InitSpecReport /\ [][NextReport]_vars

NextWindows ==
    SplitDates
        /\ UNCHANGED <<train_vars, predict_vars, pipeline_vars, rank_vars, risk_vars,
                       overheat_vars, backtest_vars, batch_vars, artifact_vars,
                       report_vars, params_vars>>

InitSpecWindows ==
    /\ TrainIdle /\ PredictIdle /\ PipelineIdle
    /\ RankIdle /\ RiskIdle /\ OverheatIdle
    /\ BacktestIdle /\ BatchIdle /\ ArtifactIdle /\ ReportIdle
    /\ InitWindows /\ ParamsIdle

\* The date windows of walk_forward_train for every number of dates.
SpecWindows == InitSpecWindows /\ [][NextWindows]_vars

NextParams ==
    \/ TrainModelEnter
          /\ UNCHANGED <<train_vars, predict_vars, pipeline_vars, rank_vars, risk_vars,
                         overheat_vars, backtest_vars, batch_vars, artifact_vars,
                         report_vars, windows_vars>>
    \/ TrainModelPop
          /\ UNCHANGED <<train_vars, predict_vars, pipeline_vars, rank_vars, risk_vars,
                         overheat_vars, backtest_vars, batch_vars, artifact_vars,
                         report_vars, windows_vars>>
    \/ TrainModelFit
          /\ UNCHANGED <<train_vars, predict_vars, pipeline_vars, rank_vars, risk_vars,
                         overheat_vars, backtest_vars, batch_vars, artifact_vars,
                         report_vars, windows_vars>>

InitSpecParams ==
    /\ TrainIdle /\ PredictIdle /\ PipelineIdle
    /\ RankIdle /\ RiskIdle /\ OverheatIdle
    /\ BacktestIdle /\ BatchIdle /\ ArtifactIdle /\ ReportIdle
    /\ WindowsIdle /\ InitParams

\* The train_model calls of the training runs, one after the other.
SpecParams == InitSpecParams /\ [][NextParams]_vars

-----------------------------------------------------------------------------
(* Properties of the training data path (SpecTrain) *)

DatesOf(rows) == {r.date : r \in rows}

SplitRows == split.train \cup split.val \cup split.test

SubsetOf(r) ==
    <<r \in split.train, r \in split.val, r \in split.test>>

\* C1: the train, validation and test date sets of walk_forward_train are
\* pairwise disjoint, every train date is strictly earlier than every validation
\* date, which is strictly earlier than every test date, and rows of different
\* instruments that share a date land in the same subset.
C1_SplitDisjointOrdered ==
    LET tr == DatesOf(split.train)
        va == DatesOf(split.val)
        te == DatesOf(split.test)
    IN /\ tr \cap va = {}
       /\ va \cap te = {}
       /\ tr \cap te = {}
       /\ \A a \in tr : \A b \in va : a < b
       /\ \A b \in va : \A c \in te : b < c
       /\ \A a \in tr : \A c \in te : a < c
       /\ \A r1 \in SplitRows : \A r2 \in SplitRows :
            r1.date = r2.date => SubsetOf(r1) = SubsetOf(r2)

\* A split with three non-empty windows in which two instruments share a
\* validation date.
C1_Witness ==
    /\ split.train # {}
    /\ split.test # {}
    /\ \E r1 \in split.val : \E r2 \in split.val :
         r1.ticker # r2.ticker /\ r1.date = r2.date

\* The row at position t is one of the last h rows of its frame.
IsLastRows(df, h, t) == t > Len(df) - h

\* C2: target_h is undefined (NaN) for exactly the last h rows of every series
\* and is 0 or 1 on every other row.
C2_TargetUndefinedOnLastRows ==
    features_done =>
        \A tk \in DOMAIN all_data : \A h \in HorizonSet :
            \A t \in 1..Len(all_data[tk]) :
                IF IsLastRows(all_data[tk], h, t)
                THEN all_data[tk][t].target[h].nan
                ELSE all_data[tk][t].target[h] \in {Num(0), Num(1)}

\* C3: no row among the last h rows of an instrument's series is in the train,
\* validation or test subset built for horizon h.
C3_LastRowsNeverInSplit ==
    (split.horizon # 0 /\ ~split.raised) =>
        \A r \in SplitRows :
            ~IsLastRows(all_data[r.ticker], split.horizon, r.pos)

\* C4: wherever row t+h exists, future_return_h[t] = close[t+h]/close[t] - 1 and
\* target_h[t] = 1 exactly when close[t+h] > close[t] (0 otherwise).
C4_LabelFromForwardClose ==
    features_done =>
        \A tk \in DOMAIN all_data : \A h \in HorizonSet :
            \A t \in 1..Len(all_data[tk]) :
                t + h <= Len(all_data[tk]) =>
                    LET c0 == all_data[tk][t].Close.num
                        ch == all_data[tk][t + h].Close.num
                        fr == all_data[tk][t].future_return[h]
                        tg == all_data[tk][t].target[h]
                    IN /\ ~fr.nan
                       /\ fr.den > 0
                       /\ fr.num * c0 = (ch - c0) * fr.den
                       /\ tg = (IF ch > c0 THEN Num(1) ELSE Num(0))

\* A labelled series with a 5-session label of each value and a falling and a
\* flat 1-session pair.
C4_Witness ==
    /\ features_done
    /\ \E tk \in DOMAIN all_data :
         /\ \E t \in 1..Len(all_data[tk]) :
              t + 5 <= Len(all_data[tk]) /\ all_data[tk][t].target[5] = Num(1)
         /\ \E t \in 1..Len(all_data[tk]) :
              /\ t + 1 <= Len(all_data[tk])
              /\ all_data[tk][t + 1].Close.num < all_data[tk][t].Close.num
              /\ all_data[tk][t].target[1] = Num(0)
         /\ \E t \in 1..Len(all_data[tk]) :
              /\ t + 1 <= Len(all_data[tk])
              /\ all_data[tk][t + 1].Close = all_data[tk][t].Close
              /\ all_data[tk][t].target[1] = Num(0)

\* C11: whenever the training remainder (unique valid dates minus the test and
\* validation windows) is empty, walk_forward_train raises instead of handing
\* the subsets to train_model.
C11_EmptyRemainderRaises ==
    (split.horizon # 0 /\ split.train_dates = <<>>) => split.raised

\* The rows that survive NaN removal for the horizon of the latest split.
SurvivingRows == ValidData(Combined(all_data, split.horizon))

\* C27: the train, validation and test subsets partition the rows that
\* survive NaN removal: together they are all of them, no row is in two
\* subsets, and the three sizes add up to the number of valid rows.
C27_SplitIsPartition ==
    (split.horizon # 0 /\ ~split.raised) =>
        /\ split.train \cup split.val \cup split.test = SurvivingRows
        /\ split.train \cap split.val = {}
        /\ split.train \cap split.test = {}
        /\ split.val \cap split.test = {}
        /\ Cardinality(split.train) + Cardinality(split.val) + Cardinality(split.test)
             = split.n_valid
        /\ split.n_valid = Cardinality(SurvivingRows)

\* A split with all three subsets filled, two instruments, and some row
\* removed for a NaN.
C27_Witness ==
    /\ split.horizon # 0
    /\ ~split.raised
    /\ split.train # {}
    /\ split.val # {}
    /\ split.test # {}
    /\ Cardinality({r.ticker : r \in SurvivingRows}) = 2
    /\ Cardinality(SurvivingRows) < Cardinality(Combined(all_data, split.horizon))
    /\ split.n_valid = Cardinality(split.train) + Cardinality(split.val)
                         + Cardinality(split.test)

\* The number of unique dates among the rows that survive NaN removal.
UniqueValidDates == Cardinality({r.date : r \in SurvivingRows})

\* C28: with N unique valid dates the split is never rejected for its size;
\* the training window is filled for every N >= 1, the test window exactly
\* when N >= 5 and the validation window exactly when N >= 10, so for smaller
\* N an empty validation or test subset is handed on.
C28_WindowEmptiness ==
    (split.horizon # 0 /\ DOMAIN all_data # {}) =>
        /\ ~split.raised
        /\ UniqueValidDates >= 1 => split.train_dates # <<>> /\ split.train # {}
        /\ (split.test_dates # <<>>) <=> (UniqueValidDates >= 5)
        /\ (split.test # {}) <=> (UniqueValidDates >= 5)
        /\ (split.val_dates # <<>>) <=> (UniqueValidDates >= 10)
        /\ (split.val # {}) <=> (UniqueValidDates >= 10)

\* Seven unique valid dates: training and test subsets filled, validation
\* subset empty, and the split is handed on.
C28_Witness ==
    /\ split.horizon # 0
    /\ ~split.raised
    /\ UniqueValidDates = 7
    /\ split.train # {}
    /\ split.test # {}
    /\ split.val = {}
    /\ split.val_dates = <<>>


-----------------------------------------------------------------------------
(* Properties of predict_single_stock (SpecPredict) *)

RECURSIVE SumOver(_, _)
\* The sum of f[h] over a finite set of horizons.
SumOver(S, f) ==
    IF S = {} THEN 0
    ELSE LET h == CHOOSE x \in S : TRUE
         IN f[h] + SumOver(S \ {h}, f)

AvailableHorizons == DOMAIN models

\* C5: with the model of some horizon missing, weighted_score is the sum of
\* weight_h * probability_h over the horizons that have a model, with the
\* configured weights unchanged, and never exceeds the sum of those weights.
C5_WeightedScoreOverAvailable ==
    (pred.done /\ ~pred.empty /\ AvailableHorizons # HorizonSet) =>
        /\ DOMAIN pred.probs = AvailableHorizons
        /\ pred.weighted_score =
             SumOver(AvailableHorizons,
                     [h \in HorizonSet |-> HorizonWeight(h) * model_out[h]])
        /\ pred.weighted_score <=
             100 * SumOver(AvailableHorizons, [h \in HorizonSet |-> HorizonWeight(h)])

\* A prediction from two of the four models, both certain: the score is the sum
\* of the two weights, below 1.
C5_Witness ==
    /\ pred.done
    /\ AvailableHorizons = {1, 20}
    /\ model_out[1] = 100
    /\ model_out[20] = 100
    /\ pred.weighted_score = 5500

\* The row a model is to receive after reconciliation: its trained feature
\* names in trained order, the instrument's value where the name exists and
\* zero where it is missing.
ReconciledRow(model_features) ==
    [i \in 1..Len(model_features) |->
        <<model_features[i],
          IF model_features[i] \in Range(df_cols)
          THEN (IF model_features[i] \in df_nan THEN 0
                ELSE FeatureValue(model_features[i]))
          ELSE 0>>]

\* C6: whenever the instrument's feature columns differ from a model's trained
\* feature-name list (names or order, equal lengths included), the row passed to
\* that model is the reconciled row.
C6_RowReconciledOnAnyMismatch ==
    (pred.done /\ ~pred.empty) =>
        \A h \in AvailableHorizons :
            df_cols # models[h] => pred.x_pred[h] = ReconciledRow(models[h])

-----------------------------------------------------------------------------
(* Properties of the pipeline (Spec) *)

\* C7: when no trained model exists for any configured horizon at inference
\* time, the run ends in its failure path, never in its success path.
C7_NoModelFailsRun ==
    predictions.status = "no_models" => exit_status = "failure"

\* C8: train_all_horizons attempts every configured horizon exactly once in
\* configuration order, a failed horizon is skipped without ending the loop,
\* every horizon that trained is in the results with its model and metrics
\* written by this run, and the call returns normally.
C8_FailedHorizonSkipped ==
    /\ pc = "train" =>
         /\ t_idx >= 1
         /\ attempted = SubSeq(PREDICTION_HORIZONS, 1, t_idx - 1)
         /\ exit_status = "none"
    /\ (pc # "train" /\ attempted # <<>>) =>
         /\ attempted = PREDICTION_HORIZONS
         /\ run_kind = "weekly" => exit_status = "success"
    /\ results = {h \in Range(attempted) : last_train[h] = "ok"}
    /\ \A h \in results :
         model_file[h] = "latest_run" /\ metrics_file[h] = "latest_run"

\* A weekly run that returned normally although the first and third horizons
\* failed: the second and fourth are trained, saved and returned.
C8_Witness ==
    /\ pc = "idle"
    /\ run_kind = "weekly"
    /\ exit_status = "success"
    /\ attempted = PREDICTION_HORIZONS
    /\ last_train = [h \in HorizonSet |-> IF h \in {1, 20} THEN "failed" ELSE "ok"]
    /\ results = {5, 60}
    /\ model_file[5] = "latest_run"
    /\ model_file[60] = "latest_run"

\* C9: a horizon whose training failed in the most recent training run is
\* absent from the predictions served next (no prob_h, no contribution to
\* weighted_score), even if an earlier run had persisted a model for it. Stated
\* for the horizons the failed attempt itself wrote no model file for.
C9_FailedHorizonNotServed ==
    predictions.status = "ok" =>
        \A h \in HorizonSet :
            (last_train[h] = "failed" /\ model_file[h] # "latest_run") =>
                h \notin DOMAIN predictions.result.probs

\* C10: when the hyperparameter search ends with no successful trial,
\* optimize_hyperparams returns the default hyperparameter set instead of
\* raising.
C10_SearchFallsBackToDefaults ==
    (last_attempt.horizon # 0 /\ last_attempt.optimize /\ last_attempt.n_complete = 0) =>
        last_attempt.params = "default_params"

-----------------------------------------------------------------------------
(* Properties of scoring and ranking (SpecRank) *)

\* C12: every record's composite_score is
\* (0.50*weighted_score + 0.25*fundamental_score + 0.25*risk_adjusted_score)
\* * (1 - 0.30*overheat_penalty): the penalty multiplies the summed base score.
C12_CompositeIsPenalisedSum ==
    scored_df.done =>
        \A k \in 1..Len(scored_df.rows) :
            LET r == scored_df.rows[k]
            IN r.composite_score =
                 (50 * r.weighted_score + 25 * r.fundamental_score
                    + 25 * r.risk_adjusted_score)
                 * (10000 - 30 * r.overheat_penalty)

\* A scored record with a penalty and non-zero fundamental and risk terms: its
\* composite differs from the one that discounts the prediction term alone and
\* from the one that subtracts the penalty.
C12_Witness ==
    /\ scored_df.done
    /\ \E k \in 1..Len(scored_df.rows) :
         LET r == scored_df.rows[k]
         IN /\ r.overheat_penalty = 50
            /\ r.weighted_score = 80
            /\ r.composite_score = 6500 * 8500
            /\ r.composite_score # 4000 * 8500 + 2500 * 10000
            /\ r.composite_score # 6500 * 10000 - 30 * 50 * 10000

\* Two records carry the same three input scores.
SameInputScores(r1, r2) ==
    /\ r1.weighted_score = r2.weighted_score
    /\ r1.fundamental_score = r2.fundamental_score
    /\ r1.risk_adjusted_score = r2.risk_adjusted_score

\* C13: with the three input scores held fixed, composite_score never increases
\* when overheat_penalty increases over [0,1], and it equals the base score
\* when overheat_penalty is 0.
C13_CompositeMonotoneInPenalty ==
    scored_df.done =>
        /\ \A i \in 1..Len(scored_df.rows) : \A j \in 1..Len(scored_df.rows) :
             LET r1 == scored_df.rows[i]
                 r2 == scored_df.rows[j]
             IN (SameInputScores(r1, r2) /\ r1.overheat_penalty <= r2.overheat_penalty)
                    => r1.composite_score >= r2.composite_score
        /\ \A i \in 1..Len(scored_df.rows) :
             LET r == scored_df.rows[i]
             IN r.overheat_penalty = 0 =>
                    r.composite_score =
                        (50 * r.weighted_score + 25 * r.fundamental_score
                           + 25 * r.risk_adjusted_score) * 10000

\* Three records with the same input scores and penalties 0, 0.5 and 1: the
\* composite falls strictly from the first to the last.
C13_Witness ==
    /\ scored_df.done
    /\ \E i \in 1..Len(scored_df.rows) : \E j \in 1..Len(scored_df.rows) :
       \E k \in 1..Len(scored_df.rows) :
         LET r1 == scored_df.rows[i]
             r2 == scored_df.rows[j]
             r3 == scored_df.rows[k]
         IN /\ SameInputScores(r1, r2) /\ SameInputScores(r2, r3)
            /\ r1.overheat_penalty = 0 /\ r2.overheat_penalty = 50
            /\ r3.overheat_penalty = 100
            /\ r1.composite_score = 6500 * 10000
            /\ r1.composite_score > r2.composite_score
            /\ r2.composite_score > r3.composite_score

\* The base score of a scored record, written out with the default weights.
RecordBase(r) ==
    50 * r.weighted_score + 25 * r.fundamental_score + 25 * r.risk_adjusted_score

\* C14: for every scored record, with the three input scores non-negative and
\* overheat_penalty in [0,1], 0.70*base_score <= composite_score <= base_score
\* and composite_score >= 0.
C14_DeductionAtMostThirtyPercent ==
    scored_df.done =>
        \A k \in 1..Len(scored_df.rows) :
            LET r == scored_df.rows[k]
            IN (/\ r.weighted_score >= 0
                /\ r.fundamental_score >= 0
                /\ r.risk_adjusted_score >= 0
                /\ r.overheat_penalty >= 0
                /\ r.overheat_penalty <= 100)
               => /\ 7000 * RecordBase(r) <= r.composite_score
                  /\ r.composite_score <= 10000 * RecordBase(r)
                  /\ r.composite_score >= 0

\* A fully penalised record that keeps exactly 70% of a positive base score,
\* next to a fully penalised record whose base score is zero.
C14_Witness ==
    /\ scored_df.done
    /\ \E i \in 1..Len(scored_df.rows) : \E j \in 1..Len(scored_df.rows) :
         LET r1 == scored_df.rows[i]
             r2 == scored_df.rows[j]
         IN /\ r1.overheat_penalty = 100
            /\ RecordBase(r1) = 6500
            /\ r1.composite_score = 7000 * 6500
            /\ r2.overheat_penalty = 100
            /\ RecordBase(r2) = 0
            /\ r2.composite_score = 0

\* The tickers of a frame.
TickersOf(df) == {df[k].ticker : k \in 1..Len(df)}

\* C15: the output of calculate_composite_score holds every input record once,
\* the record at position k has rank k (ranks 1..n), composite_score does not
\* increase as rank increases, and get_top_n(n) returns exactly the records
\* with ranks 1..min(n, total), in rank order.
C15_RankIsPositionDescending ==
    /\ scored_df.done =>
         /\ Len(scored_df.rows) = Len(prediction_df)
         /\ TickersOf(scored_df.rows) = TickersOf(prediction_df)
         /\ \A k \in 1..Len(scored_df.rows) :
              /\ scored_df.rows[k].rank = k
              /\ \E i \in 1..Len(prediction_df) :
                   /\ prediction_df[i].ticker = scored_df.rows[k].ticker
                   /\ prediction_df[i].weighted_score = scored_df.rows[k].weighted_score
                   /\ prediction_df[i].overheat_penalty = scored_df.rows[k].overheat_penalty
         /\ \A k \in 1..(Len(scored_df.rows) - 1) :
              scored_df.rows[k].composite_score >= scored_df.rows[k + 1].composite_score
    /\ top_df.done =>
         /\ Len(top_df.rows) = Min(top_df.n, Len(scored_df.rows))
         /\ \A k \in 1..Len(top_df.rows) :
              top_df.rows[k] = scored_df.rows[k] /\ top_df.rows[k].rank = k

\* The top 2 of three records whose input order is the reverse of their score
\* order.
C15_Witness ==
    /\ top_df.done
    /\ top_df.n = 2
    /\ Len(scored_df.rows) = 3
    /\ [i \in 1..3 |-> prediction_df[i].weighted_score] = <<40, 60, 80>>
    /\ \A i \in 1..3 : prediction_df[i].overheat_penalty = 0
    /\ [k \in 1..3 |-> scored_df.rows[k].ticker] = <<"C", "B", "A">>
    /\ [k \in 1..Len(top_df.rows) |-> top_df.rows[k].ticker] = <<"C", "B">>

\* The position of a ticker's record in the input frame.
InputPosition(tk) == CHOOSE i \in 1..Len(prediction_df) : prediction_df[i].ticker = tk

\* C16: two records with equal composite_score appear in the ranked output in
\* the same relative order as in the input frame.
C16_TiesKeepInputOrder ==
    scored_df.done =>
        \A k1 \in 1..Len(scored_df.rows) : \A k2 \in 1..Len(scored_df.rows) :
            (/\ k1 < k2
             /\ scored_df.rows[k1].composite_score = scored_df.rows[k2].composite_score)
            => InputPosition(scored_df.rows[k1].ticker)
                 < InputPosition(scored_df.rows[k2].ticker)

\* The three instruments of the end-to-end example, the first one with the
\* given overheat penalty.
ExampleFrame(penalty) ==
    [i \in 1..3 |->
        [ticker |-> RankTickers[i],
         weighted_score |-> <<80, 60, 40>>[i],
         fundamental_score |-> 50,
         risk_adjusted_score |-> 50,
         overheat_penalty |-> IF i = 1 THEN penalty ELSE 0]]

\* The output column `col` listed by instrument, in input order.
ByInstrument(col) ==
    [i \in 1..Len(prediction_df) |->
        LET k == CHOOSE j \in 1..Len(scored_df.rows) :
                    scored_df.rows[j].ticker = prediction_df[i].ticker
        IN IF col = "rank" THEN scored_df.rows[k].rank
           ELSE scored_df.rows[k].composite_score]

\* C17: with default weights, weighted scores [0.8, 0.6, 0.4], fundamental and
\* risk scores 0.5 and no penalty give composites [0.65, 0.55, 0.45] and ranks
\* [1, 2, 3]; with overheat_penalty 1.0 on the first instrument alone its
\* composite is 0.455 and it is ranked behind the second instrument.
C17_EndToEndExample ==
    scored_df.done =>
        /\ prediction_df = ExampleFrame(0) =>
             /\ ByInstrument("composite_score") = <<65000000, 55000000, 45000000>>
             /\ ByInstrument("rank") = <<1, 2, 3>>
        /\ prediction_df = ExampleFrame(100) =>
             /\ ByInstrument("composite_score") = <<45500000, 55000000, 45000000>>
             /\ ByInstrument("rank") = <<2, 1, 3>>

\* The example with the penalised first instrument has been scored.
C17_Witness ==
    /\ scored_df.done
    /\ prediction_df = ExampleFrame(100)
    /\ scored_df.rows[1].ticker = "B"
    /\ scored_df.rows[2].ticker = "A"
    /\ scored_df.rows[2].composite_score = 45500000

-----------------------------------------------------------------------------
(* Properties of calculate_risk_adjusted_score (SpecRisk) *)

\* The returns the call looks at: those of the last `risk_lookback` rows.
WindowReturns ==
    [t \in 1..(Min(risk_lookback, Len(risk_close)) - 1) |->
        LET first == Len(risk_close) - Min(risk_lookback, Len(risk_close))
        IN <<risk_close[first + t], risk_close[first + t + 1]>>]

\* Every return of the window equals the first one (at least two returns).
WindowReturnsConstant ==
    /\ Len(WindowReturns) >= 2
    /\ \A t \in 1..Len(WindowReturns) :
         WindowReturns[t][2] * WindowReturns[1][1]
            = WindowReturns[1][2] * WindowReturns[t][1]

-----------------------------------------------------------------------------
(* Properties of calculate_overheat_penalty (SpecOverheat) *)

\* C19: calculate_overheat_penalty returns 0 for every history of fewer than
\* 30 sessions, whatever its prices, and a value within [0,1] for every history.
C19_ShortHistoryNoPenalty ==
    oh_result.called =>
        /\ Len(oh_close) < 30 => oh_result.penalty = 0
        /\ oh_result.penalty >= 0
        /\ oh_result.penalty <= 600000

\* A 29-session history whose latest close jumped 30% above the flat closes
\* before it: no penalty.
C19_Witness ==
    /\ oh_result.called
    /\ Len(oh_close) = 29
    /\ oh_close[29] = 130
    /\ \A t \in 1..28 : oh_close[t] = 100
    /\ oh_result.penalty = 0

\* The RSI(14) of a result, 100 * gain / (gain + loss), is above 75; a window
\* with gains and no loss has RSI 100.
RsiAbove75(r) == r.gain > 0 /\ r.gain > 3 * r.loss

\* The RSI(14) of r2 is not below that of r1.
RsiNotLower(r1, r2) == r2.gain * (r1.gain + r1.loss) >= r1.gain * (r2.gain + r2.loss)

\* Two results share the inputs of the deviation and 5-session return terms.
SameOtherIndicators(r1, r2) ==
    /\ r1.sum25 = r2.sum25
    /\ r1.recent_close = r2.recent_close
    /\ r1.close_6 = r2.close_6

\* C20: between two calls on histories of at least 30 sessions with the same
\* moving-average deviation and 5-session return, when the RSI(14) of the first
\* is above 75 and that of the second is not lower (up to 100, a window with no
\* losing session), the second penalty is not lower than the first.
C20_RsiNeverLowersPenalty ==
    [][(/\ oh_result.called
        /\ Len(oh_close) >= 30
        /\ Len(oh_close') >= 30
        /\ SameOtherIndicators(oh_result, oh_result')
        /\ RsiAbove75(oh_result)
        /\ RsiNotLower(oh_result, oh_result'))
       => oh_result'.penalty >= oh_result.penalty]_vars

\* The penalty of an indicator whose excess over its threshold is num/den of
\* its excess range: nothing at or below the threshold, else the excess
\* fraction capped at 1 (units of 1e-4, rounded down).
LinearPenalty(num, den) ==
    IF num > 0 THEN <<Min(One, (num * One) \div den)>> ELSE <<>>

\* The penalties of the three indicators of a result, each taken from the
\* indicator's value: RSI(14) = 100 * gain / (gain + loss) over 75..100 (100
\* for a window with gains and no loss), deviation from the 25-session average
\* over 0.15..0.40, 5-session return over 0.10..0.30.
ActivePenalties(r) ==
    LinearPenalty(IF r.gain + r.loss > 0 THEN r.gain - 3 * r.loss ELSE 0,
                  r.gain + r.loss)
    \o LinearPenalty(IF r.sum25 > 0 THEN 4 * (20 * (25 * r.recent_close - r.sum25) - 3 * r.sum25)
                     ELSE 0,
                     20 * r.sum25)
    \o LinearPenalty(5 * (10 * (r.recent_close - r.close_6) - r.close_6),
                     10 * r.close_6)

\* C21: for a history of at least 30 sessions each indicator past its
\* threshold (RSI > 75, deviation > +15%, 5-session return > +10%) contributes
\* its linearly scaled penalty capped at 1, the others contribute nothing, and
\* the result is 0.7 * max + 0.3 * mean of the contributed penalties, 0 when
\* there is none.
C21_PenaltyFromActiveIndicators ==
    (oh_result.called /\ Len(oh_close) >= 30) =>
        LET active == ActivePenalties(oh_result)
        IN /\ oh_result.penalties = active
           /\ \A i \in 1..Len(active) : active[i] > 0 /\ active[i] <= One
           /\ oh_result.penalty =
                IF active = <<>> THEN 0
                ELSE 42 * SeqMax(active) + (18 * SeqSum(active)) \div Len(active)

-----------------------------------------------------------------------------
(* Properties of evaluate_backtest (SpecBacktest) *)

\* The rows of the predictions frame on a date.
RowsOnDate(date) ==
    {i \in 1..Len(bt_predictions) : bt_predictions[i].date = date}

\* The portfolios of a date: every choice of min(top_n, count) of the date's
\* rows such that no row left out scores higher than a chosen one.
Portfolios(date) ==
    {S \in SUBSET RowsOnDate(date) :
        /\ Cardinality(S) = Min(bt_top_n, Cardinality(RowsOnDate(date)))
        /\ \A i \in S, j \in RowsOnDate(date) \ S :
               bt_predictions[i].weighted_score >= bt_predictions[j].weighted_score}

\* The rows of a portfolio whose realized return on the date is available.
Available(date, S) ==
    {i \in S : /\ bt_predictions[i].ticker \in bt_returns.columns
               /\ date \in bt_returns.index
               /\ ~bt_returns.value[date][bt_predictions[i].ticker].nan}

RECURSIVE SumReturns(_, _)
SumReturns(date, S) ==
    IF S = {} THEN 0
    ELSE LET i == CHOOSE x \in S : TRUE
         IN bt_returns.value[date][bt_predictions[i].ticker].v + SumReturns(date, S \ {i})

\* The daily return recorded for a date, as a set (empty when none is).
DailyReturnOf(date) ==
    LET r == bt_result.results
    IN {r.daily_returns[k] : k \in {x \in 1..Len(r.dates_used) : r.dates_used[x] = date}}

BothFramesFilled ==
    bt_predictions # <<>> /\ bt_returns.index # {} /\ bt_returns.columns # {}

\* C22: for each date of the predictions the portfolio is the top-N
\* instruments by weighted_score (all of them when fewer than N, a single
\* instrument included), and whenever a realized return of the portfolio is
\* available the date contributes exactly one daily return, the equal-weight
\* mean of the available ones.
C22_DailyReturnPerDate ==
    (bt_result.done /\ BothFramesFilled) =>
        \A date \in BtDates :
            RowsOnDate(date) # {} =>
                \E S \in Portfolios(date) :
                    LET avail == Available(date, S)
                    IN avail # {} =>
                         /\ Cardinality({k \in 1..Len(bt_result.results.dates_used) :
                                           bt_result.results.dates_used[k] = date}) = 1
                         /\ \A v \in DailyReturnOf(date) :
                                v * Cardinality(avail) = MeanScale * SumReturns(date, avail)

\* The rows selected into a portfolio: rows of a date with several rows that
\* nlargest keeps.
SelectedRows ==
    {i \in 1..Len(bt_predictions) :
        LET day_preds == RowAtDate(bt_predictions, bt_predictions[i].date)
        IN /\ Len(day_preds) > 1
           /\ \E k \in 1..Len(day_preds) :
                 /\ day_preds[k] = bt_predictions[i]
                 /\ NLargestPos(day_preds, k) <= bt_top_n}

\* The realized return of a selected row is present and not NaN.
HasReturn(i) ==
    /\ bt_predictions[i].ticker \in bt_returns.columns
    /\ bt_predictions[i].date \in bt_returns.index
    /\ ~bt_returns.value[bt_predictions[i].date][bt_predictions[i].ticker].nan

ReturnOfRow(i) == bt_returns.value[bt_predictions[i].date][bt_predictions[i].ticker].v

\* C30: winning_trades + losing_trades = total_trades; the trades are the
\* selected instruments whose realized return is present and not NaN, the
\* winning ones those with a positive return and the losing ones all others
\* (a return of exactly 0 included); win_rate = winning_trades / total_trades
\* when there is a trade; with an empty predictions or returns frame every
\* counter stays 0.
C30_TradeAccounting ==
    bt_result.done =>
        LET r == bt_result.results
            trades == {i \in SelectedRows : HasReturn(i)}
        IN /\ r.winning_trades + r.losing_trades = r.total_trades
           /\ BothFramesFilled =>
                /\ r.total_trades = Cardinality(trades)
                /\ r.winning_trades = Cardinality({i \in trades : ReturnOfRow(i) > 0})
                /\ r.losing_trades = Cardinality({i \in trades : ReturnOfRow(i) <= 0})
           /\ r.total_trades > 0 =>
                r.win_rate = (r.winning_trades * One) \div r.total_trades
           /\ ~BothFramesFilled =>
                /\ r.total_trades = 0
                /\ r.winning_trades = 0
                /\ r.losing_trades = 0
                /\ r.win_rate = 0

\* Two dates of three instruments with top_n above three: the first has
\* returns +2%, -1% and 0%, the second +4% and two NaN; four trades, two of
\* them winning, the 0% one losing, the NaN ones not counted.
C30_Witness ==
    /\ bt_result.done
    /\ bt_top_n = TOP_N
    /\ Len(bt_predictions) = 6
    /\ bt_returns.index = {1, 2}
    /\ bt_returns.columns = BtTickers
    /\ bt_returns.value[1]["A"] = Ret(2)
    /\ bt_returns.value[1]["B"] = Ret(-1)
    /\ bt_returns.value[1]["C"] = Ret(0)
    /\ bt_returns.value[2]["A"] = RetNaN
    /\ bt_returns.value[2]["B"] = Ret(4)
    /\ bt_returns.value[2]["C"] = RetNaN
    /\ bt_result.results.total_trades = 4
    /\ bt_result.results.winning_trades = 2
    /\ bt_result.results.losing_trades = 2
    /\ bt_result.results.win_rate = One \div 2

-----------------------------------------------------------------------------
(* Properties of the per-instrument loops (SpecBatch) *)

TickerSet(rows) == {rows[k].ticker : k \in 1..Len(rows)}

\* The instruments of the batch whose step does not raise / raises.
FeaturesOk == {batch[i].ticker : i \in {k \in 1..Len(batch) : ~batch[k].features_raise}}

PredictOk ==
    {batch[i].ticker : i \in {k \in 1..Len(batch) :
                                ~batch[k].features_raise /\ ~batch[k].predict_raise}}

PredictFailed ==
    {batch[i].ticker : i \in {k \in 1..Len(batch) :
                                ~batch[k].features_raise /\ batch[k].predict_raise}}

\* A log line reports the two counts.
ReportsCounts(log, success, fail) ==
    /\ DOMAIN log.counts = {"success", "fail"}
    /\ log.counts["success"] = success
    /\ log.counts["fail"] = fail

\* C23: a failing instrument does not stop its batch: when phase_features
\* ends, every instrument whose feature computation did not raise is in
\* all_data and the log line carries the numbers of successes and failures;
\* when predict_all_stocks ends, every instrument of all_data whose prediction
\* did not raise is in the result and the numbers of successes and failures
\* are reported.
C23_FailuresIsolatedAndCounted ==
    /\ fb.pc = "done" =>
         /\ TickerSet(fb.all_data) = FeaturesOk
         /\ ReportsCounts(fb.log, Cardinality(FeaturesOk),
                          Len(batch) - Cardinality(FeaturesOk))
    /\ pb.pc = "done" =>
         /\ TickerSet(pb.result_df) = PredictOk
         /\ ReportsCounts(pb.log, Cardinality(PredictOk), Cardinality(PredictFailed))

-----------------------------------------------------------------------------
(* Properties of save_model / load_model (SpecArtifact) *)

\* What a load read is one complete model file: all the chunks of one save.
CompleteModel(read) ==
    /\ Len(read) = ModelChunks
    /\ \A k \in 1..Len(read) : read[k] = read[1]

\* C24: a load_model call that overlaps save_model calls returns a model
\* built from one complete file, the previous one or the new one, never from
\* a partially written file.
C24_LoadSeesCompleteArtifact ==
    (ld.pc = "done" /\ ld.result = "loaded") => CompleteModel(ld.read)

-----------------------------------------------------------------------------
(* Properties of the ranking passes (SpecReport) *)

\* C25: calculate_composite_score leaves the prediction records it is given
\* as they were, and the files every earlier ranking pass stored are still in
\* the report directory as that pass wrote them.
C25_SnapshotsImmutable ==
    /\ rp.pc \in {"save", "done"} => prediction_df = rp.given
    /\ \A k \in 1..Len(rp.stored) :
           report_dir[rp.stored[k].date] = rp.stored[k].files

-----------------------------------------------------------------------------
(* Properties of the date windows (SpecWindows) *)

\* n = min(cap, floor(total / part))
IsCappedShare(n, cap, total, part) ==
    /\ n <= cap
    /\ part * n <= total
    /\ n = cap \/ total < part * (n + 1)

\* C26: with N unique dates the test window is the latest min(60, floor(N/5))
\* dates, the validation window the min(20, floor(N/10)) dates just before
\* it, and the training window all the earlier dates.
C26_WindowLengths ==
    wf_windows.done =>
        LET N == Len(wf_dates)
            t == Len(wf_windows.test_dates)
            v == Len(wf_windows.val_dates)
        IN /\ IsCappedShare(t, 60, N, 5)
           /\ IsCappedShare(v, 20, N, 10)
           /\ wf_windows.test_dates = SubSeq(wf_dates, N - t + 1, N)
           /\ wf_windows.val_dates = SubSeq(wf_dates, N - t - v + 1, N - t)
           /\ wf_windows.train_dates = SubSeq(wf_dates, 1, N - t - v)

\* 310 dates: both caps apply, 60 test dates, 20 validation dates before
\* them and 230 training dates.
C26_Witness ==
    /\ wf_windows.done
    /\ Len(wf_dates) = 310
    /\ Len(wf_windows.test_dates) = 60
    /\ Len(wf_windows.val_dates) = 20
    /\ Len(wf_windows.train_dates) = 230
    /\ wf_windows.val_dates[1] = 231
    /\ wf_windows.test_dates[1] = 251

-----------------------------------------------------------------------------
(* Properties of train_model's hyperparameters (SpecParams) *)

\* C29: settings.LGBM_DEFAULT_PARAMS stays as configured through every
\* sequence of train_model calls (n_estimators and early_stopping_rounds
\* included), and every call without search starts from these defaults.
C29_DefaultParamsUntouched ==
    /\ default_params = LGBM_DEFAULT_PARAMS
    /\ {"n_estimators", "early_stopping_rounds"} \subseteq DOMAIN default_params
    /\ (tm.frame.pc # "idle" /\ ~tm.frame.optimize) =>
           tm.frame.entered_with = LGBM_DEFAULT_PARAMS
    /\ \A k \in 1..Len(tm.calls) :
           ~tm.calls[k].optimize =>
               /\ tm.calls[k].num_iterations = LGBM_DEFAULT_PARAMS.n_estimators
               /\ tm.calls[k].had_early_stopping

\* A second call without search, after its pops: its own dictionary has lost
\* the two keys, the first call ran 1000 rounds, the defaults still hold both.
C29_Witness ==
    /\ Len(tm.calls) = 1
    /\ ~tm.calls[1].optimize
    /\ tm.calls[1].num_iterations = 1000
    /\ tm.frame.pc = "fit"
    /\ ~tm.frame.optimize
    /\ "n_estimators" \notin DOMAIN tm.frame.params
    /\ "early_stopping_rounds" \notin DOMAIN tm.frame.params
    /\ tm.frame.num_iterations = 1000
    /\ default_params.n_estimators = 1000
    /\ default_params.early_stopping_rounds = 50

====
